---- MODULE Spec2Model ----
(***************************************************************************)
(* Host side of the HID command channel of ToffeeStudio/api_test           *)
(* (src/main.py): packet framing, the send/read exchange, the paginated    *)
(* listing, the chunked writes and the image upload flows.                 *)
(*                                                                         *)
(* Bytes are integers 0..255, byte strings are sequences of bytes.  One    *)
(* behaviour is one HIDDevice session running one operation, as main()     *)
(* does (src/main.py:660-770).  The device is the environment: every read  *)
(* of the transport draws its reply from Responses(..); device.write is    *)
(* taken to accept every packet.                                           *)
(*                                                                         *)
(* The bulk transfer (FileSystem.ls_all in src/main.py and                 *)
(* receive_files_via_cdc in src/receive_cdc.py) runs under SpecBulk: the   *)
(* serial stream and the output directory are drawn in InitBulk, and every *)
(* read of the serial port may return fewer bytes than asked for (its      *)
(* timeout ran out) or fail.                                               *)
(***************************************************************************)
EXTENDS Integers, Sequences, FiniteSets, TLC

\* ------------------------------------------------------------------ bounds
MaxPathLen == 28     \* longest path / file name argument
MaxDataLen == 60     \* longest data given to FileSystem.write
MaxImageLen == 53    \* longest image given to the image writers
MaxPages == 3        \* listing pages one ls may fetch in the model

\* ------------------------------------------------------- program constants
PACKET_SIZE == 32
HEADER_SIZE == 6
DATA_SIZE == PACKET_SIZE - HEADER_SIZE
MAGIC == 9

MODULE_CMD_LS == 80
MODULE_CMD_CD == 81
MODULE_CMD_PWD == 82
MODULE_CMD_RM == 83
MODULE_CMD_MKDIR == 84
MODULE_CMD_TOUCH == 85
MODULE_CMD_CAT == 86
MODULE_CMD_OPEN == 87
MODULE_CMD_WRITE == 88
MODULE_CMD_CLOSE == 89
MODULE_CMD_FORMAT_FILESYSTEM == 90
MODULE_CMD_FLASH_REMAINING == 91
MODULE_CMD_CHOOSE_IMAGE == 92
MODULE_CMD_WRITE_DISPLAY == 93
MODULE_CMD_SET_TIME == 94
MODULE_CMD_LS_NEXT == 96
MODULE_CMD_LS_ALL == 97
MODULE_CMD_WPM_SET_ANIM == 119
MODULE_CMD_WPM_SET_CONFIG == 120

SUCCESS == 0
IMAGE_NOT_FOUND == 230
MORE_ENTRIES == 234
INVALID_COMMAND == 239

\* The members of the ReturnCode enumeration: 0x00, 0xE1..0xE9, 0xEA, 0xEF.
ReturnCode == {SUCCESS} \cup (225..233) \cup {MORE_ENTRIES, INVALID_COMMAND}

\* receive_packet's "None" status (no response).
None == -1

\* ----------------------------------------------------------- byte helpers
Min(a, b) == IF a < b THEN a ELSE b

\* A byte string of length n of printable, non-zero bytes; the bytes differ
\* from one another up to length 89, so no two chunks of it are alike.
Pattern(n) == [i \in 1..n |-> 33 + ((i - 1) % 89)]

\* Mutant of pack_u32_le: the most significant byte first.
pack_u32_be(n) ==
    << (n \div 16777216) % 256, (n \div 65536) % 256, (n \div 256) % 256, n % 256 >>

\* struct.pack('<I', n) for 0 <= n < 2^32
pack_u32_le(n) ==
    << n % 256, (n \div 256) % 256, (n \div 65536) % 256, (n \div 16777216) % 256 >>

\* bytes.ljust(width, b'\x00'): pads, never truncates
ljust(s, width) ==
    IF Len(s) >= width THEN s ELSE s \o [i \in 1..(width - Len(s)) |-> 0]

\* Python slice s[lo:hi] for 0 <= lo <= hi
Slice(s, lo, hi) == SubSeq(s, lo + 1, Min(hi, Len(s)))

\* ------------------------------------------------------------------ state
VARIABLES
    pc,            \* position of the running operation
    cmd,           \* the operation and its argument
    packet_id,     \* HIDDevice.packet_id
    hidlog,        \* what happened on the HID transport: writes and reads
    calls,         \* one record per execute_command call
    ret_code,      \* last status an operation got from execute_command
    all_entries,   \* FileSystem.ls: all_entries
    data_chunks,   \* FileSystem.write: chunks not yet sent
    bytes_written, \* image writers: bytes_written
    success,       \* main's upload flows: result of write_image_to_file
    result         \* what the operation returned

\* The bulk transfer.
VARIABLES
    sent,                 \* the frames the device sends on the serial port
    stream,               \* their bytes, the end marker included
    pos,                  \* how many of the bytes have been read
    last_read,            \* the latest ser.read: what for, asked, got, timeout
    timed_out,            \* some ser.read returned fewer bytes than asked
    ser_timeout,          \* ser.timeout
    dir_kind,             \* output_dir: "absent", "dir" or "file"
    disk,                 \* the files of output_dir: name -> content
    dir0,                 \* dir_kind and disk as they were before the run
    filename_bytes,       \* filename_bytes
    expected_size,        \* expected_size
    received_bytes,       \* received_bytes
    files_received_count, \* files_received_count
    total_bytes_received, \* total_bytes_received
    saved_files,          \* ls_all: saved_files
    ended                 \* the way the receive loop was left

\* The sender of test_cdc.py.
VARIABLES
    wire,                 \* the bytes the serial port has accepted
    bytes_sent            \* send_file_over_cdc: bytes_sent

\* The pixel codec of main.py and test_cdc.py.
VARIABLES
    rgb565_data,          \* image_to_rgb565: image_data (frame_data in test_cdc.py)
    processed_pixels      \* image_to_rgb565: processed_pixels

\* The HID device at the other end of HIDDevice.
VARIABLES
    unanswered,           \* the packets the device has not answered yet
    inbox                 \* the responses that wait to be read by device.read

\* One stream handed to both receive loops, one after the other.
VARIABLES
    pauses,               \* where in the stream the device pauses past a timeout
    first                 \* what the loop that ran first has left

\* The combined script of integrate_and_build.py.
VARIABLES
    commands,             \* the runs of main it has made, and how each ended
    exitcode              \* what its main() returned (None while it runs)

hid == << packet_id, hidlog, calls, ret_code, all_entries,
          data_chunks, bytes_written, success >>

bulk == << sent, stream, pos, last_read, timed_out, ser_timeout, dir_kind,
           disk, dir0,
           filename_bytes, expected_size, received_bytes,
           files_received_count, total_bytes_received, saved_files, ended >>

sender == << wire, bytes_sent >>

codec == << rgb565_data, processed_pixels >>

device == << unanswered, inbox >>

twin == << pauses, first >>

script == << commands, exitcode >>

\* what neither the command channel nor the bulk transfer touches
others == << sender, codec, device, twin, script >>

vars == << pc, cmd, result, hid, bulk, others >>

\* ------------------------------------------------------ the device's reply
\* Status bytes the device is made to answer with: SUCCESS, MORE_ENTRIES, a
\* domain error, INVALID_COMMAND, and a byte that is no ReturnCode member.
StatusBytes == {SUCCESS, MORE_ENTRIES, IMAGE_NOT_FOUND, INVALID_COMMAND, 1}

\* Reply payloads (the bytes after the status byte).
Payloads ==
    { << >>,
      << 97, 0, 98, 0 >>,
      << 99, 0 >>,
      << 0, 97, 0, 0, 98, 0, 0 >>,
      << 97 >>,
      << 0, 0 >>,
      << 255, 0, 97, 0, 97, 0 >> }

\* The payloads drawn for the replies inside the chunk loops and the upload
\* flows, whose callers discard the payload ("ret_code, _ = ...").
IgnoredPayloads == { << >>, << 97, 0 >> }

\* What one bounded read of the transport may return: nothing (timeout), or
\* a status byte followed by a payload.
Responses(payloads) ==
    { << >> } \cup { << s >> \o p : s \in StatusBytes, p \in payloads }

\* --------------------------------------------------------- HIDDevice
\* send_packet: the packet handed to device.write
make_packet(command_id, data) ==
    ljust(<< MAGIC, command_id >> \o pack_u32_le(packet_id) \o data, PACKET_SIZE)

\* Mutant of next_packet_id: the counter is not advanced.
next_packet_id_stuck(id) == id

\* send_packet: self.packet_id += 1
next_packet_id(id) == id + 1

\* receive_packet on the bytes the read returned
receive_packet(resp) ==
    IF resp = << >>
    THEN [status |-> None, data |-> << >>]
    ELSE [status |-> resp[1], data |-> Tail(resp)]

\* Mutant of execute_command: a read that times out is followed by a second
\* send of the same packet and a second read.
execute_command_retry(command_id, data, resp) ==
    LET r == receive_packet(resp)
        packet == make_packet(command_id, data)
        once == << [kind |-> "write", bytes |-> packet],
                   [kind |-> "read", bytes |-> resp] >>
    IN  [ events    |-> IF resp = << >> THEN once \o once ELSE once,
          packet_id |-> next_packet_id(packet_id),
          raised    |-> r.status # None /\ r.status \notin ReturnCode,
          ret_code  |-> IF r.status = None THEN INVALID_COMMAND ELSE r.status,
          response  |-> r.data,
          call      |-> [command_id |-> command_id, data |-> data, resp |-> resp] ]

\* execute_command(command_id, data) when the read returns resp: the events
\* added to the transport, the new packet_id, and the outcome (a returned
\* pair, or the ValueError of ReturnCode(status) for a non-member).
execute_command(command_id, data, resp) ==
    LET r == receive_packet(resp)
        packet == make_packet(command_id, data)
    IN  [ events    |-> << [kind |-> "write", bytes |-> packet],
                           [kind |-> "read", bytes |-> resp] >>,
          packet_id |-> next_packet_id(packet_id),
          raised    |-> r.status # None /\ r.status \notin ReturnCode,
          ret_code  |-> IF r.status = None THEN INVALID_COMMAND ELSE r.status,
          response  |-> r.data,
          call      |-> [command_id |-> command_id, data |-> data, resp |-> resp] ]

\* The effect on the session of one execute_command call whose outcome is x.
Exchange(x) ==
    /\ hidlog' = hidlog \o x.events
    /\ packet_id' = x.packet_id
    /\ calls' = Append(calls, [command_id |-> x.call.command_id,
                               data |-> x.call.data,
                               resp |-> x.call.resp,
                               raised |-> x.raised,
                               ret_code |-> x.ret_code,
                               response |-> x.response])

\* The bulk stream: per frame the file name, a zero byte, the size as four
\* little-endian bytes and the payload; a lone zero byte ends the stream.
RECURSIVE stream_of(_)
stream_of(frames) ==
    IF frames = << >>
    THEN << 0 >>
    ELSE Head(frames).name \o << 0 >> \o pack_u32_le(Len(Head(frames).payload))
            \o Head(frames).payload \o stream_of(Tail(frames))

\* Neither loop has run, and no pause is placed.
NoFirst == [ran |-> FALSE, placed |-> FALSE]

NoRead == [what |-> "none", asked |-> 0, got |-> << >>, timeout |-> None]

\* The session before its operation starts; the device is about to send
\* frames, and the output directory is as outdir gives it.
Start(frames, outdir) ==
    /\ pc = "idle"
    /\ cmd = [op |-> "none", arg |-> << >>]
    /\ packet_id = 0
    /\ hidlog = << >>
    /\ calls = << >>
    /\ ret_code = None
    /\ all_entries = << >>
    /\ data_chunks = << >>
    /\ bytes_written = 0
    /\ success = FALSE
    /\ result = [kind |-> "none", val |-> FALSE]
    /\ sent = frames
    /\ stream = stream_of(frames)
    /\ pos = 0
    /\ last_read = NoRead
    /\ timed_out = FALSE
    /\ ser_timeout = None
    /\ dir_kind = outdir.kind
    /\ disk = outdir.files
    /\ dir0 = outdir
    /\ filename_bytes = << >>
    /\ expected_size = 0
    /\ received_bytes = 0
    /\ files_received_count = 0
    /\ total_bytes_received = 0
    /\ saved_files = << >>
    /\ ended = "none"
    /\ wire = << >>
    /\ bytes_sent = 0
    /\ rgb565_data = << >>
    /\ processed_pixels = << >>
    /\ unanswered = << >>
    /\ inbox = << >>
    /\ pauses = {}
    /\ first = NoFirst
    /\ commands = << >>
    /\ exitcode = None

\* The operations of the command channel touch neither the serial port nor
\* the output directory: they start with an idle device and no directory.
Init == Start(<< >>, [kind |-> "absent", files |-> << >>])

\* ------------------------------------------------------------ text helpers
\* bytes.decode('utf-8', errors='ignore') on the model's bytes: an ASCII byte
\* is its own character, a lead byte 0xC2..0xDF with its continuation byte
\* is the character of the two, and a byte that starts nothing valid (0xFF
\* never does) is dropped.  The model's bytes hold no longer sequences.
IsAscii(b) == b < 128
RECURSIVE decode(_)
decode(bs) ==
    IF bs = << >> THEN << >>
    ELSE IF IsAscii(Head(bs)) THEN << Head(bs) >> \o decode(Tail(bs))
    ELSE IF /\ Head(bs) \in 194..223
            /\ Len(bs) >= 2
            /\ bs[2] \in 128..191
    THEN << (Head(bs) - 192) * 64 + (bs[2] - 128) >> \o decode(Tail(Tail(bs)))
    ELSE decode(Tail(bs))

\* str.strip('\x00')
RECURSIVE lstrip(_)
lstrip(s) == IF s # << >> /\ Head(s) = 0 THEN lstrip(Tail(s)) ELSE s
RECURSIVE rstrip(_)
rstrip(s) ==
    IF s # << >> /\ s[Len(s)] = 0 THEN rstrip(SubSeq(s, 1, Len(s) - 1)) ELSE s
strip(s) == rstrip(lstrip(s))

\* str.split('\x00'): the pieces between zero characters, empty ones included
\* (the empty string splits into one empty piece).
RECURSIVE split_from(_, _, _)
split_from(s, i, cur) ==
    IF i > Len(s) THEN << cur >>
    ELSE IF s[i] = 0 THEN << cur >> \o split_from(s, i + 1, << >>)
    ELSE split_from(s, i + 1, Append(cur, s[i]))
split(s) == split_from(s, 1, << >>)

\* Mutant of filter_entries: empty pieces are kept.
filter_entries_keep_all(entries) == entries

\* [e for e in entries if e]
NonEmpty(e) == e # << >>
filter_entries(entries) == SelectSeq(entries, NonEmpty)

\* FileSystem.ls: the entries one page adds ("if response:" guards the parse)
parse_entries(response) ==
    IF response = << >> THEN << >>
    ELSE filter_entries(split(strip(decode(response))))

\* FileSystem.ls: a status that lets the listing go on
ls_accepts(rc) == rc \in {SUCCESS, MORE_ENTRIES}

\* Mutant of ls_continues: the loop also goes on after plain SUCCESS.
ls_continues_on_success(rc) == rc \in {SUCCESS, MORE_ENTRIES}

\* Mutant of ls_continues: no further page is asked for.
ls_continues_never(rc) == FALSE

\* FileSystem.ls: the condition of the paging loop
ls_continues(rc) == rc = MORE_ENTRIES

\* range(start, stop, step) as the sequence of its values
RECURSIVE range(_, _, _)
range(start, stop, step) ==
    IF start >= stop THEN << >> ELSE << start >> \o range(start + step, stop, step)

\* Mutant of chunks_of: the data is always cut by the comprehension, which
\* yields no chunk at all for empty data.
chunks_of_always_cut(data) ==
    LET offsets == range(0, Len(data), DATA_SIZE)
    IN  [k \in 1..Len(offsets) |->
            Slice(data, offsets[k], offsets[k] + DATA_SIZE)]

\* Mutant of chunks_of: the data is cut every PACKET_SIZE bytes.
chunks_of_packet_size(data) ==
    IF Len(data) > DATA_SIZE
    THEN LET offsets == range(0, Len(data), PACKET_SIZE)
         IN  [k \in 1..Len(offsets) |->
                 Slice(data, offsets[k], offsets[k] + PACKET_SIZE)]
    ELSE << data >>

\* FileSystem.write: data_chunks
chunks_of(data) ==
    IF Len(data) > DATA_SIZE
    THEN LET offsets == range(0, Len(data), DATA_SIZE)
         IN  [k \in 1..Len(offsets) |->
                 Slice(data, offsets[k], offsets[k] + DATA_SIZE)]
    ELSE << data >>

\* Mutant of chunk_failed: a failed chunk is not noticed.
chunk_failed_ignored(rc) == FALSE

\* FileSystem.write, write_display_image: "if ret_code != ReturnCode.SUCCESS"
chunk_failed(rc) == rc # SUCCESS

\* ------------------------------------------------------------------ inputs
Paths == { Pattern(n) : n \in 1..MaxPathLen }
WriteData == { Pattern(n) : n \in 0..MaxDataLen }
ImageData == { Pattern(n) : n \in 0..MaxImageLen }

\* A returned value, tagged with its Python type.
RBool(b) == [kind |-> "bool", val |-> b]
RStr(s) == [kind |-> "str", val |-> s]
RList(l) == [kind |-> "list", val |-> l]
RInt(n) == [kind |-> "int", val |-> n]


\* ------------------------------------------- single-exchange operations
\* The common shape of cd, rm, mkdir, touch, open, close, format_filesystem,
\* choose_image, write_display, set_time, set_wpm_anim, set_wpm_config:
\* one execute_command, then "return ret_code == ReturnCode.SUCCESS".
ReturnsSuccess(op, arg, command_id, data) ==
    /\ pc = "idle"
    /\ \E resp \in Responses(Payloads) :
         LET x == execute_command(command_id, data, resp)
         IN  /\ Exchange(x)
             /\ cmd' = [op |-> op, arg |-> arg]
             /\ pc' = IF x.raised THEN "raised" ELSE "done"
             /\ ret_code' = IF x.raised THEN ret_code ELSE x.ret_code
             /\ result' = IF x.raised THEN result
                          ELSE RBool(x.ret_code = SUCCESS)
    /\ UNCHANGED bulk
    /\ UNCHANGED others
    /\ UNCHANGED << all_entries, data_chunks, bytes_written, success >>

\* The common shape of pwd and cat: the decoded, stripped reply on SUCCESS,
\* the empty string otherwise.
ReturnsText(op, arg, command_id, data) ==
    /\ pc = "idle"
    /\ \E resp \in Responses(Payloads) :
         LET x == execute_command(command_id, data, resp)
         IN  /\ Exchange(x)
             /\ cmd' = [op |-> op, arg |-> arg]
             /\ pc' = IF x.raised THEN "raised" ELSE "done"
             /\ ret_code' = IF x.raised THEN ret_code ELSE x.ret_code
             /\ result' = IF x.raised THEN result
                          ELSE IF x.ret_code = SUCCESS
                               THEN RStr(strip(decode(x.response)))
                               ELSE RStr(<< >>)
    /\ UNCHANGED bulk
    /\ UNCHANGED others
    /\ UNCHANGED << all_entries, data_chunks, bytes_written, success >>

cd == \E directory \in Paths :
    ReturnsSuccess("cd", directory, MODULE_CMD_CD, directory)

pwd == ReturnsText("pwd", << >>, MODULE_CMD_PWD, << >>)

rm == \E path \in Paths :
    ReturnsSuccess("rm", path, MODULE_CMD_RM, path)

mkdir == \E directory \in Paths :
    ReturnsSuccess("mkdir", directory, MODULE_CMD_MKDIR, directory)

touch == \E file_path \in Paths :
    ReturnsSuccess("touch", file_path, MODULE_CMD_TOUCH, file_path)

cat == \E file_path \in Paths :
    ReturnsText("cat", file_path, MODULE_CMD_CAT, file_path)

open == \E file_path \in Paths :
    ReturnsSuccess("open", file_path, MODULE_CMD_OPEN, file_path)

close == ReturnsSuccess("close", << >>, MODULE_CMD_CLOSE, << >>)

format_filesystem ==
    ReturnsSuccess("format_filesystem", << >>, MODULE_CMD_FORMAT_FILESYSTEM, << >>)

\* struct.unpack('<I', b) of exactly four bytes
unpack_u32_le(b) == b[1] + 256 * b[2] + 65536 * b[3] + 16777216 * b[4]

\* flash_remaining: unpack of response[:4] on SUCCESS with a non-empty reply
\* (struct.error when the reply holds one to three bytes), 0 otherwise.
flash_remaining ==
    /\ pc = "idle"
    /\ \E resp \in Responses(Payloads) :
         LET x == execute_command(MODULE_CMD_FLASH_REMAINING, << >>, resp)
             unpacks == ~x.raised /\ x.ret_code = SUCCESS /\ x.response # << >>
             short == unpacks /\ Len(x.response) < 4
         IN  /\ Exchange(x)
             /\ cmd' = [op |-> "flash_remaining", arg |-> << >>]
             /\ pc' = IF x.raised \/ short THEN "raised" ELSE "done"
             /\ ret_code' = IF x.raised THEN ret_code ELSE x.ret_code
             /\ result' = IF x.raised \/ short THEN result
                          ELSE IF unpacks
                               THEN RInt(unpack_u32_le(Slice(x.response, 0, 4)))
                               ELSE RInt(0)
    /\ UNCHANGED bulk
    /\ UNCHANGED others
    /\ UNCHANGED << all_entries, data_chunks, bytes_written, success >>

choose_image == \E image_path \in Paths :
    ReturnsSuccess("choose_image", image_path, MODULE_CMD_CHOOSE_IMAGE, image_path)

write_display == \E data \in WriteData :
    ReturnsSuccess("write_display", data, MODULE_CMD_WRITE_DISPLAY, data)

\* struct.pack('<B', v) takes 0..255 and raises struct.error otherwise
IsU8(v) == v \in 0..255

ClockValues == {0, 59, 256}
WpmValues == {0, 20, 150, 256}

\* An operation that raises before it sends anything.
RaisesUnsent(op, arg) ==
    /\ pc = "idle"
    /\ cmd' = [op |-> op, arg |-> arg]
    /\ pc' = "raised"
    /\ UNCHANGED bulk
    /\ UNCHANGED others
    /\ UNCHANGED << packet_id, hidlog, calls, ret_code, all_entries,
                    data_chunks, bytes_written, success, result >>

set_time == \E hour \in ClockValues, minute \in ClockValues, second \in ClockValues :
    LET t == << hour, minute, second >>
    IN  IF IsU8(hour) /\ IsU8(minute) /\ IsU8(second)
        THEN ReturnsSuccess("set_time", t, MODULE_CMD_SET_TIME, t)
        ELSE RaisesUnsent("set_time", t)

set_wpm_anim == \E filename \in Paths :
    ReturnsSuccess("set_wpm_anim", filename, MODULE_CMD_WPM_SET_ANIM, filename)

set_wpm_config == \E min_wpm \in WpmValues, max_wpm \in WpmValues :
    LET w == << min_wpm, max_wpm >>
    IN  IF IsU8(min_wpm) /\ IsU8(max_wpm)
        THEN ReturnsSuccess("set_wpm_config", w, MODULE_CMD_WPM_SET_CONFIG, w)
        ELSE RaisesUnsent("set_wpm_config", w)


\* ------------------------------------------------------- FileSystem.ls
\* The first page: LS, "return []" on a status that is not accepted,
\* otherwise the page's entries are added and the paging loop is entered.
ls ==
    /\ pc = "idle"
    /\ \E resp \in Responses(Payloads) :
         LET x == execute_command(MODULE_CMD_LS, << >>, resp)
         IN  /\ Exchange(x)
             /\ cmd' = [op |-> "ls", arg |-> << >>]
             /\ IF x.raised
                THEN /\ pc' = "raised"
                     /\ UNCHANGED << ret_code, all_entries, result >>
                ELSE IF ~ls_accepts(x.ret_code)
                THEN /\ pc' = "done"
                     /\ ret_code' = x.ret_code
                     /\ result' = RList(<< >>)
                     /\ UNCHANGED all_entries
                ELSE /\ pc' = "ls_loop"
                     /\ ret_code' = x.ret_code
                     /\ all_entries' = all_entries \o parse_entries(x.response)
                     /\ UNCHANGED result
    /\ UNCHANGED bulk
    /\ UNCHANGED others
    /\ UNCHANGED << data_chunks, bytes_written, success >>

\* One turn of "while ret_code == ReturnCode.MORE_ENTRIES": LS_NEXT, break on
\* a status that is not accepted, otherwise add the page's entries; when the
\* loop is left, "return all_entries".
ls_loop ==
    /\ pc = "ls_loop"
    /\ IF ls_continues(ret_code)
       THEN /\ Len(calls) < MaxPages
            /\ \E resp \in Responses(Payloads) :
                 LET x == execute_command(MODULE_CMD_LS_NEXT, << >>, resp)
                 IN  /\ Exchange(x)
                     /\ IF x.raised
                        THEN /\ pc' = "raised"
                             /\ UNCHANGED << ret_code, all_entries, result >>
                        ELSE IF ~ls_accepts(x.ret_code)
                        THEN /\ pc' = "done"
                             /\ ret_code' = x.ret_code
                             /\ result' = RList(all_entries)
                             /\ UNCHANGED all_entries
                        ELSE /\ pc' = "ls_loop"
                             /\ ret_code' = x.ret_code
                             /\ all_entries' =
                                    all_entries \o parse_entries(x.response)
                             /\ UNCHANGED result
       ELSE /\ pc' = "done"
            /\ result' = RList(all_entries)
            /\ UNCHANGED << packet_id, hidlog, calls, ret_code, all_entries >>
    /\ UNCHANGED bulk
    /\ UNCHANGED others
    /\ UNCHANGED << cmd, data_chunks, bytes_written, success >>

\* ---------------------------------------------------- FileSystem.write
\* The split of data into data_chunks.
write ==
    /\ pc = "idle"
    /\ \E data \in WriteData :
         /\ cmd' = [op |-> "write", arg |-> data]
         /\ data_chunks' = chunks_of(data)
    /\ pc' = "write_loop"
    /\ UNCHANGED bulk
    /\ UNCHANGED others
    /\ UNCHANGED << packet_id, hidlog, calls, ret_code, all_entries,
                    bytes_written, success, result >>

\* One turn of "for chunk in data_chunks": WRITE, "return False" on a failed
\* chunk; "return True" when the chunks are used up.
write_loop ==
    /\ pc = "write_loop"
    /\ IF data_chunks # << >>
       THEN \E resp \in Responses(IgnoredPayloads) :
              LET x == execute_command(MODULE_CMD_WRITE, Head(data_chunks), resp)
              IN  /\ Exchange(x)
                  /\ IF x.raised
                     THEN /\ pc' = "raised"
                          /\ UNCHANGED << ret_code, data_chunks, result >>
                     ELSE IF chunk_failed(x.ret_code)
                     THEN /\ pc' = "done"
                          /\ ret_code' = x.ret_code
                          /\ result' = RBool(FALSE)
                          /\ UNCHANGED data_chunks
                     ELSE /\ pc' = "write_loop"
                          /\ ret_code' = x.ret_code
                          /\ data_chunks' = Tail(data_chunks)
                          /\ UNCHANGED result
       ELSE /\ pc' = "done"
            /\ result' = RBool(TRUE)
            /\ UNCHANGED << packet_id, hidlog, calls, ret_code, data_chunks >>
    /\ UNCHANGED bulk
    /\ UNCHANGED others
    /\ UNCHANGED << cmd, all_entries, bytes_written, success >>

\* ------------------------------------------ FileSystem.write_display_image
write_display_image ==
    /\ pc = "idle"
    /\ \E image_data \in ImageData :
         cmd' = [op |-> "write_display_image", arg |-> image_data]
    /\ bytes_written' = 0
    /\ pc' = "write_display_image_loop"
    /\ UNCHANGED bulk
    /\ UNCHANGED others
    /\ UNCHANGED << packet_id, hidlog, calls, ret_code, all_entries,
                    data_chunks, success, result >>

\* One turn of "while bytes_written < total_bytes": WRITE_DISPLAY of the next
\* slice, "return False" on a failed chunk; "return True" after the loop.
write_display_image_loop ==
    /\ pc = "write_display_image_loop"
    /\ IF bytes_written < Len(cmd.arg)
       THEN \E resp \in Responses(IgnoredPayloads) :
              LET chunk == Slice(cmd.arg, bytes_written, bytes_written + DATA_SIZE)
                  x == execute_command(MODULE_CMD_WRITE_DISPLAY, chunk, resp)
              IN  /\ Exchange(x)
                  /\ IF x.raised
                     THEN /\ pc' = "raised"
                          /\ UNCHANGED << ret_code, bytes_written, result >>
                     ELSE IF chunk_failed(x.ret_code)
                     THEN /\ pc' = "done"
                          /\ ret_code' = x.ret_code
                          /\ result' = RBool(FALSE)
                          /\ UNCHANGED bytes_written
                     ELSE /\ pc' = "write_display_image_loop"
                          /\ ret_code' = x.ret_code
                          /\ bytes_written' = bytes_written + DATA_SIZE
                          /\ UNCHANGED result
       ELSE /\ pc' = "done"
            /\ result' = RBool(TRUE)
            /\ UNCHANGED << packet_id, hidlog, calls, ret_code, bytes_written >>
    /\ UNCHANGED bulk
    /\ UNCHANGED others
    /\ UNCHANGED << cmd, all_entries, data_chunks, success >>


\* ------------------------------------------------- main: the upload flows
\* --write-test-image, --write-test-anim and --write-image-file: open the
\* remote file, write_image_to_file, close, report.
TestImageName == << 116, 101, 115, 116, 95, 105, 109, 97, 103, 101, 46, 114, 97, 119 >>
TestAnimName == << 116, 101, 115, 116, 95, 97, 110, 105, 109, 46, 97, 114, 97, 119 >>
DotRaw == << 46, 114, 97, 119 >>
\* output_filename of --write-image-file: the image's stem and ".raw"
OutputNames == { stem \o DotRaw : stem \in { << 99, 97, 116 >>, Pattern(23) } }

\* "if fs.open(name):" and what follows a failed open
upload_open(op, name) ==
    /\ pc = "idle"
    /\ \E image_data \in ImageData :
         cmd' = [op |-> op, arg |-> image_data]
    /\ \E resp \in Responses(IgnoredPayloads) :
         LET x == execute_command(MODULE_CMD_OPEN, name, resp)
         IN  /\ Exchange(x)
             /\ IF x.raised
                THEN /\ pc' = "raised"
                     /\ UNCHANGED << ret_code, result >>
                ELSE IF x.ret_code = SUCCESS
                THEN /\ pc' = "write_image_to_file"
                     /\ ret_code' = x.ret_code
                     /\ UNCHANGED result
                ELSE /\ pc' = "done"
                     /\ ret_code' = x.ret_code
                     /\ result' = [kind |-> "open_failed", val |-> FALSE]
    /\ bytes_written' = 0
    /\ UNCHANGED bulk
    /\ UNCHANGED others
    /\ UNCHANGED << all_entries, data_chunks, success >>

write_test_image == upload_open("write_test_image", TestImageName)

write_test_anim == upload_open("write_test_anim", TestAnimName)

write_image_file == \E output_filename \in OutputNames :
    upload_open("write_image_file", output_filename)

\* One turn of write_image_to_file's "while bytes_written < total_bytes":
\* fs.write of the next slice (at most DATA_SIZE bytes, so one chunk and one
\* exchange), "return False" when it fails; "return True" after the loop.
write_image_to_file ==
    /\ pc = "write_image_to_file"
    /\ IF bytes_written < Len(cmd.arg)
       THEN \E resp \in Responses(IgnoredPayloads) :
              LET chunk == Slice(cmd.arg, bytes_written, bytes_written + DATA_SIZE)
                  x == execute_command(MODULE_CMD_WRITE, Head(chunks_of(chunk)), resp)
              IN  /\ Exchange(x)
                  /\ IF x.raised
                     THEN /\ pc' = "raised"
                          /\ UNCHANGED << ret_code, bytes_written, success >>
                     ELSE IF chunk_failed(x.ret_code)
                     THEN /\ pc' = "upload_close"
                          /\ ret_code' = x.ret_code
                          /\ success' = FALSE
                          /\ UNCHANGED bytes_written
                     ELSE /\ pc' = "write_image_to_file"
                          /\ ret_code' = x.ret_code
                          /\ bytes_written' = bytes_written + DATA_SIZE
                          /\ UNCHANGED success
       ELSE /\ pc' = "upload_close"
            /\ success' = TRUE
            /\ UNCHANGED << packet_id, hidlog, calls, ret_code, bytes_written >>
    /\ UNCHANGED bulk
    /\ UNCHANGED others
    /\ UNCHANGED << cmd, all_entries, data_chunks, result >>

\* "fs.close()" (its result is not looked at) and the report of success
upload_close ==
    /\ pc = "upload_close"
    /\ \E resp \in Responses(IgnoredPayloads) :
         LET x == execute_command(MODULE_CMD_CLOSE, << >>, resp)
         IN  /\ Exchange(x)
             /\ pc' = IF x.raised THEN "raised" ELSE "done"
             /\ ret_code' = IF x.raised THEN ret_code ELSE x.ret_code
             /\ result' = IF x.raised THEN result ELSE RBool(success)
    /\ UNCHANGED bulk
    /\ UNCHANGED others
    /\ UNCHANGED << cmd, all_entries, data_chunks, bytes_written, success >>

\* --------------------------------------------------- FileSystem.ls_all
\* Mutant of send_packet: the packet is followed by a read of the reply.
send_packet_then_read(command_id, data) ==
    << [kind |-> "write", bytes |-> make_packet(command_id, data)],
       [kind |-> "read", bytes |-> << >>] >>

\* send_packet alone, as ls_all calls it: one packet handed to device.write
send_packet(command_id, data) ==
    << [kind |-> "write", bytes |-> make_packet(command_id, data)] >>

\* Phase 1: the trigger packet goes out through send_packet; nothing is
\* read from the HID transport.
ls_all ==
    /\ pc = "idle"
    /\ cmd' = [op |-> "ls_all", arg |-> << >>]
    /\ hidlog' = hidlog \o send_packet(MODULE_CMD_LS_ALL, << >>)
    /\ packet_id' = next_packet_id(packet_id)
    /\ pc' = "ls_all_find_port"
    /\ UNCHANGED bulk
    /\ UNCHANGED others
    /\ UNCHANGED << calls, ret_code, all_entries, data_chunks, bytes_written,
                    success, result >>

\* ======================================================== bulk transfer
\* ------------------------------------------------------------- constants
READ_TIMEOUT_INTER_FILE == 5
READ_TIMEOUT_DATA == 2
\* the 4096 of "bytes_to_read = min(4096, expected_size - received_bytes)"
READ_CHUNK == 4096
\* convert_raw_to_png: expected_bytes of a 128 x 128 image
RAW_IMAGE_BYTES == 128 * 128 * 2

\* ---------------------------------------------------------------- inputs
MaxFrames == 2       \* most frames of one bulk stream

NameA == << 97 >>
NameB == << 98 >>
NameF1Raw == << 102, 49 >> \o DotRaw
NameOld == << 111, 108, 100 >>
\* a file name that is no UTF-8 text: it decodes to the empty string
NameInvalid == << 255 >>
\* a name of one letter outside ASCII (U+00E9), and the name "."
NameAccent == << 233 >>
NameDot == << 46 >>

\* The frames the device is made to send: two of the same name and different
\* payloads, an empty payload, a ten-byte payload, the frame f1.raw / xyz,
\* and a frame whose name decodes to nothing.
Frames ==
    { [name |-> NameA, payload |-> << 120 >>],
      [name |-> NameA, payload |-> << 121, 122 >>],
      [name |-> NameB, payload |-> << >>],
      [name |-> NameB, payload |-> Pattern(10)],
      [name |-> NameF1Raw, payload |-> << 120, 121, 122 >>],
      [name |-> NameInvalid, payload |-> << 120 >>] }

\* A frame whose payload takes more than one read of READ_CHUNK bytes.
BigFrame == [name |-> NameB, payload |-> Pattern(READ_CHUNK + 1)]

\* The streams: up to MaxFrames of the frames above, or the big frame alone.
FrameSeqs == UNION { [1..n -> Frames] : n \in 0..MaxFrames } \cup { << BigFrame >> }

\* A file that is not there.
Absent == << -1 >>

Prefixes(s) == { SubSeq(s, 1, n) : n \in 1..Len(s) }

\* os.path.splitext(output_path)[0] + ".png" of a path that ends in ".raw"
png_name(name) ==
    (IF Len(name) = Len(DotRaw) THEN name ELSE SubSeq(name, 1, Len(name) - Len(DotRaw)))
        \o << 46, 112, 110, 103 >>

\* Every file name the runs of the model can touch in output_dir.
FileNames ==
    UNION { Prefixes(decode(f.name)) : f \in Frames }
        \cup { png_name(NameF1Raw), NameOld, NameAccent, NameDot }

EmptyDir == [n \in FileNames |-> Absent]

\* output_dir before the run: not there, a regular file of that name, or a
\* directory that holds two files of an earlier run.
InitialDirs ==
    { [kind |-> "absent", files |-> EmptyDir],
      [kind |-> "file", files |-> EmptyDir],
      [kind |-> "dir", files |-> [EmptyDir EXCEPT ![NameOld] = << 111 >>,
                                                  ![NameA] = << 111 >>]] }

\* ------------------------------------------------------- the serial port
\* ser.read(n): the n bytes asked for, or fewer (down to none) when the
\* timeout runs out first; never more than the device still has to send.
\* Of the lengths of a read of more than ShortRead bytes only none, all and
\* all but one are drawn.
ShortRead == 16     \* longest read of which every shorter length is drawn
ReadLens(n) ==
    LET most == Min(n, Len(stream) - pos) IN
    IF most <= ShortRead THEN 0..most ELSE {0, most - 1, most}

SerRead(what, n, k, timeout) ==
    /\ last_read' = [what |-> what, asked |-> n,
                     got |-> Slice(stream, pos, pos + k), timeout |-> timeout]
    /\ pos' = pos + k
    /\ timed_out' = (timed_out \/ k < n)

\* A read of the data that asks for a whole chunk whatever the size leaves.
bytes_to_read_chunk(size, received) == READ_CHUNK

\* "bytes_to_read = min(4096, expected_size - received_bytes)"
bytes_to_read(size, received) == Min(READ_CHUNK, size - received)

\* ---------------------------------------------------------- output files
\* open(output_path, 'wb') raises IsADirectoryError, an IOError, when the
\* file name is empty or ".": the path is then output_dir itself.
open_fails(filename) == filename = << >> \/ filename = NameDot

open_wb(files, filename) == [files EXCEPT ![filename] = << >>]
f_write(files, filename, chunk) == [files EXCEPT ![filename] = @ \o chunk]
\* Mutant of os_remove: the file stays.
os_remove_not(files, filename) == files

os_remove(files, filename) == [files EXCEPT ![filename] = Absent]

\* str.lower() on the model's bytes
lower(s) == [i \in 1..Len(s) |-> IF s[i] >= 65 /\ s[i] <= 90 THEN s[i] + 32 ELSE s[i]]
endswith(s, suffix) ==
    /\ Len(s) >= Len(suffix)
    /\ SubSeq(s, Len(s) - Len(suffix) + 1, Len(s)) = suffix

\* convert_raw_to_png writes the PNG only for a file of RAW_IMAGE_BYTES
\* bytes; the PNG is kept by its signature.
png_bytes == << 137, 80, 78, 71 >>
convert_raw_to_png(files, filename) ==
    IF Len(files[filename]) = RAW_IMAGE_BYTES
    THEN [files EXCEPT ![png_name(filename)] = png_bytes]
    ELSE files

\* ls_all: what follows the save of a file
after_save(files, filename) ==
    IF endswith(lower(filename), DotRaw)
    THEN convert_raw_to_png(files, filename)
    ELSE files

\* what a bulk action leaves alone, whichever it is
bulk_frame == << cmd, hid, sent, stream, dir0, others >>

\* ---------------------------------------------------- FileSystem.ls_all
\* Mutant of ls_all_return: the error is raised to the caller.
ls_all_return_raises(how) ==
    /\ pc' = IF how \in {"marker", "timeout_first", "timeout_end"} THEN "done" ELSE "raised"
    /\ result' = RList(saved_files)
    /\ ended' = how

\* Mutant of ls_all_return: an empty list whatever was saved.
ls_all_return_empty(how) ==
    /\ pc' = "done"
    /\ result' = RList(<< >>)
    /\ ended' = how

\* Mutant of ls_all_return: the operation hangs where it should return.
ls_all_return_hangs(how) ==
    /\ pc' = "hangs"
    /\ result' = result
    /\ ended' = how

\* "return saved_files"
ls_all_return(how) ==
    /\ pc' = "done"
    /\ result' = RList(saved_files)
    /\ ended' = how

\* Phase 2: find_cdc_port; without a port ls_all returns its empty list.
ls_all_find_port ==
    /\ pc = "ls_all_find_port"
    /\ \E port_found \in BOOLEAN :
         IF port_found
         THEN pc' = "ls_all_prepare" /\ UNCHANGED << result, ended >>
         ELSE ls_all_return("no_port")
    /\ UNCHANGED bulk_frame
    /\ UNCHANGED << pos, last_read, timed_out, ser_timeout, dir_kind, disk,
                    filename_bytes, expected_size, received_bytes,
                    files_received_count, total_bytes_received, saved_files >>

\* Mutant of rmtree: the files stay.
rmtree_not(files) == files

\* shutil.rmtree(output_dir), and os.makedirs after it: nothing is left
rmtree(files) == EmptyDir

\* The output directory is removed with all it holds (a regular file of
\* that name is removed) and made anew; an OSError on the way, before or
\* after the removal, ends ls_all with its empty list.
ls_all_prepare ==
    /\ pc = "ls_all_prepare"
    /\ \/ /\ dir_kind' = "dir"
          /\ disk' = rmtree(disk)
          /\ files_received_count' = 0
          /\ total_bytes_received' = 0
          /\ pc' = "ls_all_open"
          /\ UNCHANGED << result, ended >>
       \/ /\ \/ UNCHANGED << dir_kind, disk >>
             \/ dir_kind # "absent" /\ dir_kind' = "absent" /\ disk' = rmtree(disk)
          /\ ls_all_return("dir_error")
          /\ UNCHANGED << files_received_count, total_bytes_received >>
    /\ UNCHANGED bulk_frame
    /\ UNCHANGED << pos, last_read, timed_out, ser_timeout, filename_bytes,
                    expected_size, received_bytes, saved_files >>

\* "with serial.Serial(port, 115200, timeout=READ_TIMEOUT_INTER_FILE)"
ls_all_open ==
    /\ pc = "ls_all_open"
    /\ ser_timeout' = READ_TIMEOUT_INTER_FILE
    /\ filename_bytes' = << >>
    /\ pc' = "ls_all_filename"
    /\ UNCHANGED bulk_frame
    /\ UNCHANGED << result, ended, pos, last_read, timed_out, dir_kind, disk,
                    expected_size, received_bytes, files_received_count,
                    total_bytes_received, saved_files >>

\* 3a: one byte of the file name.  A timeout empties filename_bytes and
\* leaves the loop, with or without files received; so does a zero byte
\* that ends an empty name.
ls_all_filename ==
    /\ pc = "ls_all_filename"
    /\ \E k \in ReadLens(1) :
         LET byte == Slice(stream, pos, pos + k) IN
         /\ SerRead("filename", 1, k, ser_timeout)
         /\ IF byte = << >>
            THEN /\ filename_bytes' = << >>
                 /\ ls_all_return(IF files_received_count = 0
                                  THEN "timeout_first" ELSE "timeout_end")
            ELSE IF byte = << 0 >>
            THEN IF filename_bytes = << >>
                 THEN /\ ls_all_return("marker")
                      /\ UNCHANGED filename_bytes
                 ELSE /\ pc' = "ls_all_size"
                      /\ UNCHANGED << filename_bytes, result, ended >>
            ELSE /\ filename_bytes' = filename_bytes \o byte
                 /\ UNCHANGED << pc, result, ended >>
    /\ UNCHANGED bulk_frame
    /\ UNCHANGED << ser_timeout, dir_kind, disk, expected_size, received_bytes,
                    files_received_count, total_bytes_received, saved_files >>

\* Mutant of ls_all_saved: the file is listed and its bytes are added, but
\* it is not counted.
ls_all_saved_uncounted(files, filename, received) ==
    /\ saved_files' = Append(saved_files, filename)
    /\ files_received_count' = files_received_count
    /\ total_bytes_received' = total_bytes_received + received
    /\ disk' = after_save(files, filename)
    /\ ser_timeout' = READ_TIMEOUT_INTER_FILE
    /\ filename_bytes' = << >>
    /\ pc' = "ls_all_filename"
    /\ UNCHANGED << result, ended >>

\* The file of the frame is complete: it joins saved_files and the
\* counters, a .raw file is handed to convert_raw_to_png, and the loop
\* awaits the next file name.
ls_all_saved(files, filename, received) ==
    /\ saved_files' = Append(saved_files, filename)
    /\ files_received_count' = files_received_count + 1
    /\ total_bytes_received' = total_bytes_received + received
    /\ disk' = after_save(files, filename)
    /\ ser_timeout' = READ_TIMEOUT_INTER_FILE
    /\ filename_bytes' = << >>
    /\ pc' = "ls_all_filename"
    /\ UNCHANGED << result, ended >>

\* 3b: the size, read under the inter-file timeout; fewer than four bytes
\* end the loop.  Then the output file is opened for writing: a failing
\* open ends the loop, a size of zero saves the empty file at once.
ls_all_size ==
    /\ pc = "ls_all_size"
    /\ \E k \in ReadLens(4) :
         LET size_bytes == Slice(stream, pos, pos + k)
             filename == decode(filename_bytes)
         IN
         /\ SerRead("size", 4, k, READ_TIMEOUT_INTER_FILE)
         /\ IF Len(size_bytes) < 4
            THEN /\ ls_all_return("short_size")
                 /\ ser_timeout' = READ_TIMEOUT_INTER_FILE
                 /\ UNCHANGED << disk, expected_size, received_bytes, filename_bytes,
                                 files_received_count, total_bytes_received, saved_files >>
            ELSE /\ expected_size' = unpack_u32_le(size_bytes)
                 /\ received_bytes' = 0
                 /\ IF open_fails(filename)
                    THEN /\ ls_all_return("io_error")
                         /\ ser_timeout' = READ_TIMEOUT_INTER_FILE
                         /\ UNCHANGED << disk, filename_bytes, files_received_count,
                                         total_bytes_received, saved_files >>
                    ELSE IF unpack_u32_le(size_bytes) = 0
                    THEN ls_all_saved(open_wb(disk, filename), filename, 0)
                    ELSE /\ disk' = open_wb(disk, filename)
                         /\ ser_timeout' = READ_TIMEOUT_DATA
                         /\ pc' = "ls_all_data"
                         /\ UNCHANGED << result, ended, filename_bytes, files_received_count,
                                         total_bytes_received, saved_files >>
    /\ UNCHANGED bulk_frame
    /\ UNCHANGED dir_kind

\* 3c: one chunk of the payload, read under the data timeout.  An empty
\* chunk is the TimeoutError: the file is removed and the loop left.  The
\* chunk that completes the payload saves the file.
ls_all_data ==
    /\ pc = "ls_all_data"
    /\ LET asked == bytes_to_read(expected_size, received_bytes)
           filename == decode(filename_bytes)
       IN
       \E k \in ReadLens(asked) :
         LET chunk == Slice(stream, pos, pos + k) IN
         /\ SerRead("data", asked, k, ser_timeout)
         /\ IF chunk = << >>
            THEN /\ disk' = os_remove(disk, filename)
                 /\ ls_all_return("data_timeout")
                 /\ ser_timeout' = READ_TIMEOUT_INTER_FILE
                 /\ UNCHANGED << received_bytes, filename_bytes, files_received_count,
                                 total_bytes_received, saved_files >>
            ELSE IF received_bytes + Len(chunk) < expected_size
            THEN /\ disk' = f_write(disk, filename, chunk)
                 /\ received_bytes' = received_bytes + Len(chunk)
                 /\ UNCHANGED << pc, result, ended, ser_timeout, filename_bytes,
                                 files_received_count, total_bytes_received, saved_files >>
            ELSE /\ received_bytes' = received_bytes + Len(chunk)
                 /\ ls_all_saved(f_write(disk, filename, chunk), filename,
                                 received_bytes + Len(chunk))
    /\ UNCHANGED bulk_frame
    /\ UNCHANGED << dir_kind, expected_size >>

\* serial.Serial or ser.read raises SerialException.  It is an IOError:
\* inside the data loop the "except IOError" of the file takes it and the
\* half-written file stays; elsewhere the outer handler takes it.  Either
\* way ls_all returns saved_files.
ls_all_serial_error ==
    /\ pc \in {"ls_all_open", "ls_all_filename", "ls_all_size", "ls_all_data"}
    /\ ls_all_return(IF pc = "ls_all_data" THEN "io_error" ELSE "serial_error")
    /\ ser_timeout' = IF pc = "ls_all_data" THEN READ_TIMEOUT_INTER_FILE ELSE ser_timeout
    /\ UNCHANGED bulk_frame
    /\ UNCHANGED << pos, last_read, timed_out, dir_kind, disk, filename_bytes,
                    expected_size, received_bytes, files_received_count,
                    total_bytes_received, saved_files >>

\* ------------------------------------- receive_cdc.receive_files_via_cdc
\* Mutant of rc_return: False whatever the way out.
rc_return_false(value, how) ==
    /\ pc' = "done"
    /\ result' = RBool(FALSE)
    /\ ended' = how

\* Mutant of rc_return: True whatever the way out.
rc_return_true(value, how) ==
    /\ pc' = "done"
    /\ result' = RBool(TRUE)
    /\ ended' = how

\* "return True" after the loop, "return False" from the outer handlers
rc_return(value, how) ==
    /\ pc' = "done"
    /\ result' = RBool(value)
    /\ ended' = how

\* os.makedirs(output_dir, exist_ok=True): what the directory holds stays;
\* a regular file of that name (or any other OSError) makes it raise, and
\* nothing catches that.
receive_files_via_cdc ==
    /\ pc = "idle"
    /\ cmd' = [op |-> "receive_files_via_cdc", arg |-> << >>]
    /\ \/ /\ dir_kind # "file"
          /\ dir_kind' = "dir"
          /\ pc' = "rc_open"
       \/ /\ pc' = "raised"
          /\ UNCHANGED dir_kind
    /\ files_received_count' = 0
    /\ total_bytes_received' = 0
    /\ UNCHANGED << hid, sent, stream, dir0, others >>
    /\ UNCHANGED << result, ended, pos, last_read, timed_out, ser_timeout, disk,
                    filename_bytes, expected_size, received_bytes, saved_files >>

\* "with serial.Serial(port, BAUD_RATE, timeout=READ_TIMEOUT_INTER_FILE)"
rc_open ==
    /\ pc = "rc_open"
    /\ ser_timeout' = READ_TIMEOUT_INTER_FILE
    /\ filename_bytes' = << >>
    /\ pc' = "rc_filename"
    /\ UNCHANGED bulk_frame
    /\ UNCHANGED << result, ended, pos, last_read, timed_out, dir_kind, disk,
                    expected_size, received_bytes, files_received_count,
                    total_bytes_received, saved_files >>

\* 1: one byte of the file name.  A timeout before the first file raises
\* TimeoutError, which the outer handler turns into False.  A timeout after
\* a file leaves the filename loop only: filename_bytes stays as it is, and
\* the loop is left when it is empty, else the size is read next.
rc_filename ==
    /\ pc = "rc_filename"
    /\ \E k \in ReadLens(1) :
         LET byte == Slice(stream, pos, pos + k) IN
         /\ SerRead("filename", 1, k, ser_timeout)
         /\ IF byte = << >> /\ files_received_count = 0
            THEN rc_return(FALSE, "timeout_first")
            ELSE IF byte = << >> \/ byte = << 0 >>
            THEN IF filename_bytes = << >>
                 THEN rc_return(TRUE, IF byte = << >> THEN "timeout_end" ELSE "marker")
                 ELSE /\ pc' = "rc_size"
                      /\ UNCHANGED << result, ended >>
            ELSE UNCHANGED << pc, result, ended >>
         /\ filename_bytes' = IF byte = << >> \/ byte = << 0 >>
                              THEN filename_bytes
                              ELSE filename_bytes \o byte
    /\ UNCHANGED bulk_frame
    /\ UNCHANGED << ser_timeout, dir_kind, disk, expected_size, received_bytes,
                    files_received_count, total_bytes_received, saved_files >>

\* The file of the frame is counted, but the timeout of the port stays as
\* the data loop had it.
rc_saved_keeps_timeout(files, received) ==
    /\ files_received_count' = files_received_count + 1
    /\ total_bytes_received' = total_bytes_received + received
    /\ disk' = files
    /\ ser_timeout' = ser_timeout
    /\ filename_bytes' = << >>
    /\ pc' = "rc_filename"
    /\ UNCHANGED << result, ended >>

\* The file of the frame is complete: it is counted, and the loop awaits
\* the next file name.
rc_saved(files, received) ==
    /\ files_received_count' = files_received_count + 1
    /\ total_bytes_received' = total_bytes_received + received
    /\ disk' = files
    /\ ser_timeout' = READ_TIMEOUT_INTER_FILE
    /\ filename_bytes' = << >>
    /\ pc' = "rc_filename"
    /\ UNCHANGED << result, ended >>

\* 2: the size, read under the inter-file timeout; fewer than four bytes
\* end the loop.  Then the output file is opened for writing.
rc_size ==
    /\ pc = "rc_size"
    /\ \E k \in ReadLens(4) :
         LET size_bytes == Slice(stream, pos, pos + k)
             filename == decode(filename_bytes)
         IN
         /\ SerRead("size", 4, k, READ_TIMEOUT_INTER_FILE)
         /\ IF Len(size_bytes) < 4
            THEN /\ rc_return(TRUE, "short_size")
                 /\ ser_timeout' = READ_TIMEOUT_INTER_FILE
                 /\ UNCHANGED << disk, expected_size, received_bytes, filename_bytes,
                                 files_received_count, total_bytes_received >>
            ELSE /\ expected_size' = unpack_u32_le(size_bytes)
                 /\ received_bytes' = 0
                 /\ IF open_fails(filename)
                    THEN /\ rc_return(TRUE, "io_error")
                         /\ ser_timeout' = READ_TIMEOUT_INTER_FILE
                         /\ UNCHANGED << disk, filename_bytes, files_received_count,
                                         total_bytes_received >>
                    ELSE IF unpack_u32_le(size_bytes) = 0
                    THEN rc_saved(open_wb(disk, filename), 0)
                    ELSE /\ disk' = open_wb(disk, filename)
                         /\ ser_timeout' = READ_TIMEOUT_DATA
                         /\ pc' = "rc_data"
                         /\ UNCHANGED << result, ended, filename_bytes,
                                         files_received_count, total_bytes_received >>
    /\ UNCHANGED bulk_frame
    /\ UNCHANGED << dir_kind, saved_files >>

\* 3: one chunk of the payload, read under the data timeout.  An empty
\* chunk is the TimeoutError: the file is removed, the loop is left and
\* True is returned.
rc_data ==
    /\ pc = "rc_data"
    /\ LET asked == bytes_to_read(expected_size, received_bytes)
           filename == decode(filename_bytes)
       IN
       \E k \in ReadLens(asked) :
         LET chunk == Slice(stream, pos, pos + k) IN
         /\ SerRead("data", asked, k, ser_timeout)
         /\ IF chunk = << >>
            THEN /\ disk' = os_remove(disk, filename)
                 /\ rc_return(TRUE, "data_timeout")
                 /\ ser_timeout' = READ_TIMEOUT_INTER_FILE
                 /\ UNCHANGED << received_bytes, filename_bytes, files_received_count,
                                 total_bytes_received >>
            ELSE IF received_bytes + Len(chunk) < expected_size
            THEN /\ disk' = f_write(disk, filename, chunk)
                 /\ received_bytes' = received_bytes + Len(chunk)
                 /\ UNCHANGED << pc, result, ended, ser_timeout, filename_bytes,
                                 files_received_count, total_bytes_received >>
            ELSE /\ received_bytes' = received_bytes + Len(chunk)
                 /\ rc_saved(f_write(disk, filename, chunk), received_bytes + Len(chunk))
    /\ UNCHANGED bulk_frame
    /\ UNCHANGED << dir_kind, expected_size, saved_files >>

\* serial.Serial or ser.read raises SerialException.  Inside the data loop
\* the "except IOError" of the file takes it, the half-written file stays
\* and True is returned; elsewhere the outer handler returns False.
rc_serial_error ==
    /\ pc \in {"rc_open", "rc_filename", "rc_size", "rc_data"}
    /\ IF pc = "rc_data"
       THEN rc_return(TRUE, "io_error") /\ ser_timeout' = READ_TIMEOUT_INTER_FILE
       ELSE rc_return(FALSE, "serial_error") /\ UNCHANGED ser_timeout
    /\ UNCHANGED bulk_frame
    /\ UNCHANGED << pos, last_read, timed_out, dir_kind, disk, filename_bytes,
                    expected_size, received_bytes, files_received_count,
                    total_bytes_received, saved_files >>

\* --------------------------------------------------------------- the system
Next ==
    \/ cd
    \/ pwd
    \/ rm
    \/ mkdir
    \/ touch
    \/ cat
    \/ open
    \/ close
    \/ format_filesystem
    \/ flash_remaining
    \/ choose_image
    \/ write_display
    \/ set_time
    \/ set_wpm_anim
    \/ set_wpm_config
    \/ ls
    \/ ls_loop
    \/ write
    \/ write_loop
    \/ write_display_image
    \/ write_display_image_loop
    \/ write_test_image
    \/ write_test_anim
    \/ write_image_file
    \/ write_image_to_file
    \/ upload_close
    \/ ls_all

Spec == Init /\ [][Next]_vars

\* FileSystem.ls is a sequential loop whose every read has a timeout: a turn
\* of the loop that can be taken is taken.
SpecLsFair == Spec /\ WF_vars(ls_loop)

\* The bulk transfer: one run of FileSystem.ls_all or of
\* receive_files_via_cdc, for every stream of at most MaxFrames frames and
\* every output directory of InitialDirs.
InitBulk == \E frames \in FrameSeqs, outdir \in InitialDirs : Start(frames, outdir)

NextBulk ==
    \/ ls_all
    \/ ls_all_find_port
    \/ ls_all_prepare
    \/ ls_all_open
    \/ ls_all_filename
    \/ ls_all_size
    \/ ls_all_data
    \/ ls_all_serial_error
    \/ receive_files_via_cdc
    \/ rc_open
    \/ rc_filename
    \/ rc_size
    \/ rc_data
    \/ rc_serial_error

SpecBulk == InitBulk /\ [][NextBulk]_vars

\* The receiver is a sequential program whose reads all have a timeout: a
\* step that can be taken is taken.
SpecBulkFair == SpecBulk /\ WF_vars(NextBulk)

\* ============================== both receive loops on the same stream
MaxPauses == 1       \* most pauses of the device in one stream

\* Where the device may pause: before any byte of the stream.
RECURSIVE PausesUpTo(_)
PausesUpTo(k) ==
    IF k = 0 THEN { {} }
    ELSE LET fewer == PausesUpTo(k - 1)
         IN  fewer \cup { P \cup {p} : P \in fewer, p \in 0..(Len(stream) - 1) }

\* The latest read was cut by a timeout: the pause at pos is over.
PauseOver == last_read.what # "none" /\ Len(last_read.got) < last_read.asked

\* ser.read(n) with the pauses placed: the bytes up to the next pause, n at
\* most; behind the stream there is silence.
PausedLen(n) ==
    LET stops == { p \in pauses : p > pos \/ (p = pos /\ ~PauseOver) }
                     \cup { Len(stream) }
        next == CHOOSE p \in stops : \A q \in stops : p <= q
    IN  Min(n, next - pos)

\* The step's read returns what the pauses leave it.
ReadAsPaused == Len(last_read'.got) = PausedLen(last_read'.asked)

\* The pauses of the device are placed.
twin_place ==
    /\ pc = "idle"
    /\ ~first.placed
    /\ \E P \in PausesUpTo(MaxPauses) : pauses' = P
    /\ first' = [ran |-> FALSE, placed |-> TRUE]
    /\ UNCHANGED << pc, cmd, result, hid, bulk, sender, codec, device, script >>

\* What the loop of ls_all has left is kept, and the stream, its pauses and
\* the output directory are as before the run.
twin_again ==
    /\ cmd.op = "ls_all"
    /\ pc = "done"
    /\ ended \in {"marker", "timeout_first", "timeout_end", "short_size",
                   "data_timeout", "io_error"}
    /\ ~first.ran
    /\ first' = [ran |-> TRUE, placed |-> TRUE, disk |-> disk, pos |-> pos,
                 files_received_count |-> files_received_count,
                 total_bytes_received |-> total_bytes_received]
    /\ pc' = "idle"
    /\ pos' = 0
    /\ last_read' = NoRead
    /\ timed_out' = FALSE
    /\ dir_kind' = dir0.kind
    /\ disk' = dir0.files
    /\ filename_bytes' = << >>
    /\ expected_size' = 0
    /\ received_bytes' = 0
    /\ files_received_count' = 0
    /\ total_bytes_received' = 0
    /\ saved_files' = << >>
    /\ ended' = "none"
    /\ UNCHANGED << cmd, result, hid, sent, stream, dir0, ser_timeout,
                    sender, codec, device, pauses, script >>

\* The streams of the frames but the big one, and no output directory yet.
InitTwin ==
    \E frames \in FrameSeqs \ { << BigFrame >> } :
        Start(frames, [kind |-> "absent", files |-> EmptyDir])

NextTwin ==
    \/ twin_place
    \/ (first.placed /\ ~first.ran /\ ls_all)        \* ls_all runs first
    \/ ls_all_find_port
    \/ ls_all_prepare
    \/ ls_all_open
    \/ (ls_all_filename /\ ReadAsPaused)
    \/ (ls_all_size /\ ReadAsPaused)
    \/ (ls_all_data /\ ReadAsPaused)
    \/ twin_again
    \/ (first.ran /\ receive_files_via_cdc)           \* and the other loop second
    \/ rc_open
    \/ (rc_filename /\ ReadAsPaused)
    \/ (rc_size /\ ReadAsPaused)
    \/ (rc_data /\ ReadAsPaused)

SpecTwin == InitTwin /\ [][NextTwin]_vars

\* ================================================ test_cdc.py: the sender
SEND_CHUNK_SIZE == 4096

MaxSendLen == 3      \* longest short payload handed to send_file_over_cdc

\* str.encode('utf-8') of a string of code points below 2048
RECURSIVE encode(_)
encode(str) ==
    IF str = << >>
    THEN << >>
    ELSE (IF Head(str) < 128
          THEN << Head(str) >>
          ELSE << 192 + (Head(str) \div 64), 128 + (Head(str) % 64) >>)
         \o encode(Tail(str))

\* filename_on_device: "a", "f1.raw", a name with a letter outside ASCII
\* and the name "."
SendNames == { NameA, NameF1Raw, NameAccent, NameDot }
\* data: short payloads, and one that takes two chunks
SendData == { Pattern(n) : n \in 0..MaxSendLen } \cup { Pattern(SEND_CHUNK_SIZE + 1) }

\* serial_port.write(b) returns the number of bytes it accepted: all of
\* them, all but one, one, or none.
Accepts(n) == { k \in {0, 1, n - 1, n} : 0 <= k /\ k <= n }

\* "return" of a function that returns nothing
RNone == [kind |-> "None", val |-> FALSE]

\* 1: the filename and its zero byte (filename_bytes, here name_bytes) in
\* one write; IOError when the port took less.
send_file_over_cdc ==
    /\ pc = "idle"
    /\ \E filename_on_device \in SendNames, data \in SendData :
         LET name_bytes == encode(filename_on_device) \o << 0 >> IN
         /\ cmd' = [op |-> "send_file_over_cdc",
                    arg |-> [filename_on_device |-> filename_on_device, data |-> data]]
         /\ \E bytes_written_fn \in Accepts(Len(name_bytes)) :
              /\ wire' = wire \o SubSeq(name_bytes, 1, bytes_written_fn)
              /\ pc' = IF bytes_written_fn # Len(name_bytes)
                       THEN "raised" ELSE "send_size"
    /\ UNCHANGED << result, bytes_sent, hid, bulk, codec, device, twin, script >>

\* 2: the size header; IOError when the port took less than four bytes.
send_size ==
    /\ pc = "send_size"
    /\ LET size_header == pack_u32_le(Len(cmd.arg.data)) IN
       \E bytes_written_h \in Accepts(Len(size_header)) :
          /\ wire' = wire \o SubSeq(size_header, 1, bytes_written_h)
          /\ pc' = IF bytes_written_h # 4 THEN "raised" ELSE "send_data"
    /\ bytes_sent' = 0
    /\ UNCHANGED << cmd, result, hid, bulk, codec, device, twin, script >>

\* 3: one chunk of the data; a write that took less is warned about and
\* bytes_sent moves on by the length of the chunk.  After the last chunk the
\* function returns.
send_data ==
    /\ pc = "send_data"
    /\ IF bytes_sent < Len(cmd.arg.data)
       THEN LET chunk == Slice(cmd.arg.data, bytes_sent, bytes_sent + SEND_CHUNK_SIZE)
                bytes_to_send == Len(chunk)
            IN
            \E bytes_written_chunk \in Accepts(bytes_to_send) :
               /\ wire' = wire \o SubSeq(chunk, 1, bytes_written_chunk)
               /\ bytes_sent' = bytes_sent + bytes_to_send
               /\ UNCHANGED << pc, result >>
       ELSE /\ pc' = "done"
            /\ result' = RNone
            /\ UNCHANGED << wire, bytes_sent >>
    /\ UNCHANGED << cmd, hid, bulk, codec, device, twin, script >>

\* serial_port.write or flush raises (a write timeout, a port that went
\* away): send_file_over_cdc raises.
send_serial_error ==
    /\ pc \in {"send_size", "send_data"}
    /\ pc' = "raised"
    /\ UNCHANGED << cmd, result, sender, hid, bulk, codec, device, twin, script >>

InitSend == Init

NextSend ==
    \/ send_file_over_cdc
    \/ send_size
    \/ send_data
    \/ send_serial_error

SpecSend == InitSend /\ [][NextSend]_vars

\* ================================ the sender's bytes, handed to a receiver
\* What send_file_over_cdc has put on the wire, and a lone zero byte after
\* it, is the stream a receive loop is given next.
trip_hand_over ==
    /\ cmd.op = "send_file_over_cdc"
    /\ pc = "done"
    /\ sent = << >>
    /\ sent' = << [name |-> encode(cmd.arg.filename_on_device),
                   payload |-> cmd.arg.data,
                   filename_on_device |-> cmd.arg.filename_on_device] >>
    /\ stream' = wire \o << 0 >>
    /\ pc' = "idle"
    /\ UNCHANGED << cmd, result, hid, pos, last_read, timed_out, ser_timeout,
                    dir_kind, disk, dir0, filename_bytes, expected_size,
                    received_bytes, files_received_count, total_bytes_received,
                    saved_files, ended, others >>

\* Nothing sent yet, and no output directory.
InitTrip == Start(<< >>, [kind |-> "absent", files |-> EmptyDir])

\* The sender first, then one of the receive loops, whose reads get all
\* they ask for while the stream lasts.
NextTrip ==
    \/ (sent = << >> /\ send_file_over_cdc)
    \/ send_size
    \/ send_data
    \/ trip_hand_over
    \/ (sent # << >> /\ ls_all)
    \/ ls_all_find_port
    \/ ls_all_prepare
    \/ ls_all_open
    \/ (ls_all_filename /\ ReadAsPaused)
    \/ (ls_all_size /\ ReadAsPaused)
    \/ (ls_all_data /\ ReadAsPaused)
    \/ (sent # << >> /\ receive_files_via_cdc)
    \/ rc_open
    \/ (rc_filename /\ ReadAsPaused)
    \/ (rc_size /\ ReadAsPaused)
    \/ (rc_data /\ ReadAsPaused)

SpecTrip == InitTrip /\ [][NextTrip]_vars

\* ============================ integrate_and_build.py: the combined script
\* The arguments of the two runs of main.
FirstCommand == << "--write-image-file", "cat.png" >>
SecondCommand == << "--choose-image", "cat.raw" >>

\* run_main_with_args: what main_module.main() returned when it completed
\* (main has no return statement), 1 when it raised an Exception.
run_main_with_args(how) == IF how = "done" THEN None ELSE 1

\* main() of the script: "Running first command".
combined_main ==
    /\ pc = "idle"
    /\ commands = << >>
    /\ exitcode = None
    /\ commands' = << [args |-> FirstCommand, how |-> "running"] >>
    /\ UNCHANGED << pc, cmd, result, hid, bulk, sender, codec, device, twin, exitcode >>

\* The run of main ends before it has a session: Image.open raises, or
\* HIDDevice finds no device and calls sys.exit(1), which no
\* "except Exception" takes.
main_ends_early ==
    /\ pc = "idle"
    /\ commands # << >>
    /\ commands[Len(commands)].how = "running"
    /\ cmd.op = "none"
    /\ \E how \in {"raised", "exited"} : pc' = how
    /\ UNCHANGED << cmd, result, hid, bulk, others >>

\* The run of main is over.  SystemExit ends the script with its code;
\* otherwise "if result1 != 0: return 1", and the second command follows a
\* result of 0.
combined_after_first ==
    /\ Len(commands) = 1
    /\ commands[1].how = "running"
    /\ pc \in {"done", "raised", "exited"}
    /\ IF pc = "exited"
       THEN /\ commands' = << [commands[1] EXCEPT !.how = pc] >>
            /\ exitcode' = 1
            /\ pc' = "combined_exit"
       ELSE LET result1 == run_main_with_args(pc) IN
            IF result1 # 0
            THEN /\ commands' = << [commands[1] EXCEPT !.how = pc] >>
                 /\ exitcode' = 1
                 /\ pc' = "combined_exit"
            ELSE /\ commands' = << [commands[1] EXCEPT !.how = pc],
                                  [args |-> SecondCommand, how |-> "running"] >>
                 /\ pc' = "combined_second"
                 /\ UNCHANGED exitcode
    /\ UNCHANGED << cmd, result, hid, bulk, sender, codec, device, twin >>

\* The script and, inside it, main with --write-image-file.
NextCombined ==
    \/ combined_main
    \/ main_ends_early
    \/ (commands # << >> /\ write_image_file)
    \/ write_image_to_file
    \/ upload_close
    \/ combined_after_first

SpecCombined == Init /\ [][NextCombined]_vars

\* ===================================== main.py: a session with a device
MaxCalls == 3        \* most execute_command calls of one session

\* The commands of the session: those of an upload.
SessionCommands ==
    { [command_id |-> MODULE_CMD_OPEN, data |-> NameA],
      [command_id |-> MODULE_CMD_WRITE, data |-> << 120 >>],
      [command_id |-> MODULE_CMD_CLOSE, data |-> << >>] }

\* What the device answers: a status byte and a payload.
DeviceReplies == { << SUCCESS >>, << IMAGE_NOT_FOUND, 97, 0 >>, << 1 >> }

\* execute_command, first half: send_packet hands the packet to
\* device.write; the device has one more packet to answer.
session_send ==
    /\ pc \in {"idle", "session"}
    /\ Len(calls) < MaxCalls
    /\ \E c \in SessionCommands :
         /\ cmd' = [op |-> "session", arg |-> c]
         /\ hidlog' = hidlog \o send_packet(c.command_id, c.data)
    /\ packet_id' = next_packet_id(packet_id)
    /\ unanswered' = Append(unanswered, packet_id)
    /\ pc' = "session_read"
    /\ UNCHANGED bulk
    /\ UNCHANGED << sender, codec, twin, script, inbox >>
    /\ UNCHANGED << calls, ret_code, all_entries, data_chunks, bytes_written,
                    success, result >>

\* The device answers the oldest packet it has not answered; the response
\* waits on the host until device.read takes it.
device_answers ==
    /\ cmd.op = "session"
    /\ unanswered # << >>
    /\ \E bytes \in DeviceReplies :
         inbox' = Append(inbox, [reply_to |-> Head(unanswered), bytes |-> bytes])
    /\ unanswered' = Tail(unanswered)
    /\ UNCHANGED << pc, cmd, result, hid, bulk, sender, codec, twin, script >>

\* execute_command, second half: device.read(PACKET_SIZE, 1500) returns the
\* oldest response that waits, or nothing when none came in time; then the
\* status is mapped as in execute_command.
session_read ==
    /\ pc = "session_read"
    /\ LET resp == IF inbox = << >> THEN << >> ELSE Head(inbox).bytes
           x == execute_command(cmd.arg.command_id, cmd.arg.data, resp)
       IN  /\ hidlog' = Append(hidlog, [kind |-> "read", bytes |-> resp])
           /\ calls' = Append(calls, [command_id |-> x.call.command_id,
                                      data |-> x.call.data,
                                      resp |-> resp,
                                      raised |-> x.raised,
                                      ret_code |-> x.ret_code,
                                      response |-> x.response,
                                      sent_as |-> packet_id - 1,
                                      reply_to |-> IF inbox = << >> THEN None
                                                   ELSE Head(inbox).reply_to])
           /\ pc' = IF x.raised THEN "raised" ELSE "session"
           /\ ret_code' = IF x.raised THEN ret_code ELSE x.ret_code
    /\ inbox' = IF inbox = << >> THEN inbox ELSE Tail(inbox)
    /\ UNCHANGED bulk
    /\ UNCHANGED << sender, codec, twin, script, unanswered >>
    /\ UNCHANGED << cmd, packet_id, all_entries, data_chunks, bytes_written,
                    success, result >>

InitSession == Init

NextSession ==
    \/ session_send
    \/ device_answers
    \/ session_read

SpecSession == InitSession /\ [][NextSession]_vars

\* ======================================= main.py, test_cdc.py: pixel codec
MaxPixels == 2       \* most pixels of an image with more than one pixel

\* x >> n, x << n, a | b and a & b on non-negative integers
shr(x, n) == x \div (2 ^ n)
shl(x, n) == x * (2 ^ n)

RECURSIVE bit_or(_, _)
bit_or(a, b) ==
    IF a = 0 THEN b
    ELSE IF b = 0 THEN a
    ELSE (IF a % 2 = 1 \/ b % 2 = 1 THEN 1 ELSE 0) + 2 * bit_or(a \div 2, b \div 2)

RECURSIVE bit_and(_, _)
bit_and(a, b) ==
    IF a = 0 \/ b = 0 THEN 0
    ELSE (IF a % 2 = 1 /\ b % 2 = 1 THEN 1 ELSE 0) + 2 * bit_and(a \div 2, b \div 2)

\* struct.pack('<H', v), the other byte order
pack_H_le(v) == << v % 256, v \div 256 >>

\* struct.pack('>H', v); struct.error outside 0..65535
packable_H(v) == 0 <= v /\ v <= 65535
pack_H(v) == << v \div 256, v % 256 >>

rgb565_to_rgb(rgb565) ==
    LET r5 == bit_and(shr(rgb565, 11), 31)
        g6 == bit_and(shr(rgb565, 5), 63)
        b5 == bit_and(rgb565, 31)
        r8 == bit_or(shl(r5, 3), shr(r5, 2))
        g8 == bit_or(shl(g6, 2), shr(g6, 4))
        b8 == bit_or(shl(b5, 3), shr(b5, 2))
    IN  << r8, g8, b8 >>

color_distance(c1, c2) ==
    (c1[1] - c2[1]) ^ 2 + (c1[2] - c2[2]) ^ 2 + (c1[3] - c2[3]) ^ 2

\* main.py, the body of image_to_rgb565's loop: the value of one pixel
rgb565_of_pixel(px) ==
    LET r5 == shr(px[1], 3)
        g6 == shr(px[2], 2)
        b5 == shr(px[3], 3)
    IN  bit_or(bit_or(shl(r5, 11), shl(g6, 5)), b5)

\* test_cdc.py, the body of process_image_frame's loop: the value of one pixel
frame_rgb565_of_pixel(px) ==
    LET r5 == shr(px[1], 3)
        g6 == shr(px[2], 2)
        b5 == shr(px[3], 3)
    IN  bit_or(bit_or(shl(r5, 11), shl(g6, 5)), b5)

\* the palette of image_to_rgb565_quantized
colors_rgb565 == << 57351, 248, 7936 >>      \* 0xE007, 0x00F8, 0x1F00
colors_rgb == [i \in 1..Len(colors_rgb565) |-> rgb565_to_rgb(colors_rgb565[i])]

\* (min_dist and closest_color start as None)
\* the inner loop over enumerate(colors_rgb) taking the later entry on a tie
RECURSIVE closest_last(_, _, _, _)
closest_last(px, i, min_dist, closest_color) ==
    IF i > Len(colors_rgb)
    THEN closest_color
    ELSE LET dist == color_distance(px, colors_rgb[i]) IN
         IF min_dist = None \/ dist <= min_dist
         THEN closest_last(px, i + 1, dist, colors_rgb565[i])
         ELSE closest_last(px, i + 1, min_dist, closest_color)

\* the inner loop over enumerate(colors_rgb), from entry i on
RECURSIVE closest_from(_, _, _, _)
closest_from(px, i, min_dist, closest_color) ==
    IF i > Len(colors_rgb)
    THEN closest_color
    ELSE LET dist == color_distance(px, colors_rgb[i]) IN
         IF min_dist = None \/ dist < min_dist
         THEN closest_from(px, i + 1, dist, colors_rgb565[i])
         ELSE closest_from(px, i + 1, min_dist, closest_color)

\* Channel values around the steps of the 5- and 6-bit truncation.
Levels == { 0, 1, 3, 4, 7, 8, 127, 128, 247, 248, 251, 252, 255 }

\* Colours of a one-pixel image: every combination of the levels, every
\* value of each channel alone, the widened palette, and two colours at the
\* same distance from the first two palette entries.
Colours ==
    (Levels \X Levels \X Levels)
        \cup { << v, 0, 0 >> : v \in 0..255 }
        \cup { << 0, v, 0 >> : v \in 0..255 }
        \cup { << 0, 0, v >> : v \in 0..255 }
        \cup { colors_rgb[i] : i \in 1..Len(colors_rgb) }
        \cup { << 40, 8, 5 >>, << 45, 14, 12 >> }

\* Colours of the longer images.
FewColours == { << 255, 255, 255 >>, << 40, 8, 5 >>, << 18, 52, 86 >> }

RECURSIVE ImagesOf(_)
ImagesOf(n) ==
    IF n = 0
    THEN { << >> }
    ELSE { Append(im, c) : im \in ImagesOf(n - 1), c \in FewColours }

\* list(image.getdata()) of an RGB image: no pixel, one pixel of any colour,
\* or up to MaxPixels pixels of few colours
Images ==
    { << c >> : c \in Colours } \cup UNION { ImagesOf(n) : n \in 0..MaxPixels }

\* a call of one of the three converters on the pixels of an RGB image
convert_call(op) ==
    /\ pc = "idle"
    /\ \E pixels \in Images :
         cmd' = [op |-> op, arg |-> [pixels |-> pixels]]
    /\ rgb565_data' = << >>
    /\ processed_pixels' = << >>
    /\ pc' = op
    /\ UNCHANGED << result, hid, bulk, sender, device, twin, script >>

\* one turn of a converter's loop over the pixels, writing the value
\* rgb565 and keeping the colour shown; after the last pixel the converter
\* returns image_data (and the processed image, where it makes one)
convert_pixel(op, rgb565, shown, with_image) ==
    /\ pc = op
    /\ IF Len(rgb565_data) < 2 * Len(cmd.arg.pixels)
       THEN IF packable_H(rgb565)
            THEN /\ rgb565_data' = rgb565_data \o pack_H(rgb565)
                 /\ processed_pixels' = IF with_image
                                        THEN Append(processed_pixels, shown)
                                        ELSE processed_pixels
                 /\ UNCHANGED << pc, result >>
            ELSE /\ pc' = "raised"
                 /\ UNCHANGED << result, codec >>
       ELSE /\ pc' = "done"
            /\ result' = [kind |-> "bytes", val |-> rgb565_data]
            /\ UNCHANGED codec
    /\ UNCHANGED << cmd, hid, bulk, sender, device, twin, script >>

\* the pixel the loop is at (the last one again once the loop is over)
pixel_now ==
    LET pixels == cmd.arg.pixels
        i == Min(Len(rgb565_data) \div 2 + 1, Len(pixels))
    IN  IF pixels = << >> THEN << 0, 0, 0 >> ELSE pixels[i]

image_to_rgb565 == convert_call("image_to_rgb565")

image_to_rgb565_loop ==
    convert_pixel("image_to_rgb565", rgb565_of_pixel(pixel_now), pixel_now, TRUE)

process_image_frame == convert_call("process_image_frame")

process_image_frame_loop ==
    convert_pixel("process_image_frame", frame_rgb565_of_pixel(pixel_now),
                  pixel_now, FALSE)

image_to_rgb565_quantized == convert_call("image_to_rgb565_quantized")

image_to_rgb565_quantized_loop ==
    LET closest_color == closest_from(pixel_now, 1, None, None) IN
    convert_pixel("image_to_rgb565_quantized", closest_color,
                  rgb565_to_rgb(closest_color), TRUE)

InitCodec == Init

NextCodec ==
    \/ image_to_rgb565
    \/ image_to_rgb565_loop
    \/ process_image_frame
    \/ process_image_frame_loop
    \/ image_to_rgb565_quantized
    \/ image_to_rgb565_quantized_loop

SpecCodec == InitCodec /\ [][NextCodec]_vars

\* ------------------------------------------- RGB565 to RGB888 and back
\* every value of a pixel of a .raw file
U16 == 0..(2 ^ 16 - 1)

\* struct.unpack('>H', b)[0] of two bytes
unpack_H(b) == b[1] * 256 + b[2]

\* Mutant of raw_to_rgb888: the channels are shifted up and the low bits
\* left at zero.
raw_to_rgb888_shift(rgb565) ==
    << shl(bit_and(shr(rgb565, 11), 31), 3),
       shl(bit_and(shr(rgb565, 5), 63), 2),
       shl(bit_and(rgb565, 31), 3) >>

\* convert_raw_to_png, the body of its loop: the colour of one RGB565 value
raw_to_rgb888(rgb565) ==
    LET r5 == bit_and(shr(rgb565, 11), 31)
        g6 == bit_and(shr(rgb565, 5), 63)
        b5 == bit_and(rgb565, 31)
        r8 == bit_or(shl(r5, 3), shr(r5, 2))
        g8 == bit_or(shl(g6, 2), shr(g6, 4))
        b8 == bit_or(shl(b5, 3), shr(b5, 2))
    IN  << r8, g8, b8 >>

\* An RGB565 value is widened, by rgb565_to_rgb or by the loop of
\* convert_raw_to_png, and image_to_rgb565 is called on the one pixel.
widen_pixel ==
    /\ pc = "idle"
    /\ \E rgb565 \in U16 :
         \E rgb \in { rgb565_to_rgb(rgb565), raw_to_rgb888(rgb565) } :
            cmd' = [op |-> "image_to_rgb565",
                    arg |-> [pixels |-> << rgb >>, rgb565 |-> rgb565]]
    /\ rgb565_data' = << >>
    /\ processed_pixels' = << >>
    /\ pc' = "image_to_rgb565"
    /\ UNCHANGED << result, hid, bulk, sender, device, twin, script >>

\* The two bytes image_to_rgb565 has made of one pixel are read back as
\* convert_raw_to_png reads a pixel of a .raw file.
convert_raw_pixel ==
    /\ cmd.op = "image_to_rgb565"
    /\ pc = "done"
    /\ Len(result.val) = 2
    /\ result' = [kind |-> "rgb888", val |-> << raw_to_rgb888(unpack_H(result.val)) >>]
    /\ pc' = "converted"
    /\ UNCHANGED << cmd, hid, bulk, others >>

NextColour ==
    \/ widen_pixel
    \/ image_to_rgb565
    \/ image_to_rgb565_loop
    \/ convert_raw_pixel

SpecColour == InitCodec /\ [][NextColour]_vars



\* ================================================================ properties
\* What the properties read off the logs.
IsWrite(e) == e.kind = "write"
IsRead(e) == e.kind = "read"
Written == SelectSeq(hidlog, IsWrite)
Zeros(n) == [i \in 1..n |-> 0]
LastCall == calls[Len(calls)]

\* The packet of the session's i-th execute_command call, and the read that
\* follows it on the transport.
PacketOf(i) == hidlog[2 * i - 1]
ReadOf(i) == hidlog[2 * i]

\* C1: every packet any operation writes to the HID transport is exactly
\* PACKET_SIZE = 32 bytes long, whatever the opcode and the payload length:
\* the 6-byte header [0x09, opcode, sequence number] and then the payload,
\* zero-padded to 32 bytes.
C1_EveryPacketIsPacketSize ==
    /\ \A k \in 1..Len(Written) :
         /\ Len(Written[k].bytes) = PACKET_SIZE
         /\ Written[k].bytes[1] = MAGIC
    /\ cmd.op # "ls_all" =>
         \A i \in 1..Len(calls) :
            PacketOf(i).bytes =
                << MAGIC, calls[i].command_id >> \o pack_u32_le(i - 1)
                    \o calls[i].data
                    \o Zeros(PACKET_SIZE - HEADER_SIZE - Len(calls[i].data))

\* C2: the k-th packet of a session carries sequence number k - 1 and the
\* counter equals the number of packets written, whether or not the reads
\* returned anything; no two packets carry the same sequence number.
SeqOf(packet) == unpack_u32_le(SubSeq(packet, 3, 6))
C2_SequenceNumbers ==
    /\ packet_id = Len(Written)
    /\ \A k \in 1..Len(Written) : SeqOf(Written[k].bytes) = k - 1
    /\ \A j, k \in 1..Len(Written) :
         j # k => SeqOf(Written[j].bytes) # SeqOf(Written[k].bytes)

\* C2 witness: a third packet went out after an earlier read had timed out.
C2_Witness ==
    /\ Len(Written) >= 3
    /\ \E i \in 1..Len(hidlog) :
         /\ IsRead(hidlog[i]) /\ hidlog[i].bytes = << >>
         /\ \E j \in (i + 1)..Len(hidlog) : IsWrite(hidlog[j])

\* C2 witness for the trigger of ls_all: a packet with no read at all.
C2_WitnessTrigger ==
    /\ cmd.op = "ls_all"
    /\ Len(Written) = 1
    /\ Len(hidlog) = 1

\* An exchange after which the operation has nothing to go on with.
Failed(c) ==
    \/ c.raised
    \/ /\ c.ret_code # SUCCESS
       /\ ~(c.command_id \in {MODULE_CMD_LS, MODULE_CMD_LS_NEXT}
              /\ c.ret_code = MORE_ENTRIES)

\* C3: each execute_command call writes one packet and then reads once, in
\* that order, whatever the read returns; nothing is sent or read twice, and
\* no operation issues the command of a failed exchange again.
C3_OneWriteThenOneRead ==
    cmd.op # "ls_all" =>
        /\ Len(hidlog) = 2 * Len(calls)
        /\ \A i \in 1..Len(calls) :
             /\ IsWrite(PacketOf(i))
             /\ PacketOf(i).bytes[2] = calls[i].command_id
             /\ SeqOf(PacketOf(i).bytes) = i - 1
             /\ IsRead(ReadOf(i))
             /\ ReadOf(i).bytes = calls[i].resp
        /\ \A i, j \in 1..Len(calls) :
             (i < j /\ Failed(calls[i])) =>
                 calls[j].command_id # calls[i].command_id

\* C3 witness: an operation is over after one exchange whose read timed out.
C3_Witness ==
    /\ pc = "done"
    /\ Len(calls) = 1
    /\ calls[1].resp = << >>
    /\ Len(hidlog) = 2

\* C4: a read that returns nothing yields a status of its own, one the
\* device itself cannot send (the device sends members of ReturnCode).
C4_NoResponseIsDistinct ==
    \A i \in 1..Len(calls) :
        (calls[i].resp = << >> /\ ~calls[i].raised) =>
            calls[i].ret_code \notin ReturnCode

\* C5: execute_command never raises: an empty read and every first byte of
\* a reply, member of ReturnCode or not, give a returned (status, payload).
C5_ExecuteNeverRaises ==
    \A i \in 1..Len(calls) : ~calls[i].raised


\* ------------------------------------------------------------- listing
IsLsNext(c) == c.command_id = MODULE_CMD_LS_NEXT
AnsweredMore(c) == ~c.raised /\ c.ret_code = MORE_ENTRIES

\* The number of LS_NEXT calls, and of MORE_ENTRIES replies, among the first n.
RECURSIVE CountLsNext(_)
CountLsNext(n) ==
    IF n = 0 THEN 0
    ELSE CountLsNext(n - 1) + (IF IsLsNext(calls[n]) THEN 1 ELSE 0)
RECURSIVE CountMore(_)
CountMore(n) ==
    IF n = 0 THEN 0
    ELSE CountMore(n - 1) + (IF AnsweredMore(calls[n]) THEN 1 ELSE 0)

\* C6: ls issues LS once and first, then only LS_NEXT; an LS_NEXT follows
\* exactly the exchanges whose status was MORE_ENTRIES, so when ls is over
\* the last status was not MORE_ENTRIES and there are as many LS_NEXT as
\* MORE_ENTRIES replies.
C6_ListingCommands ==
    cmd.op = "ls" =>
        /\ Len(calls) >= 1
        /\ calls[1].command_id = MODULE_CMD_LS
        /\ \A i \in 2..Len(calls) :
             /\ calls[i].command_id = MODULE_CMD_LS_NEXT
             /\ AnsweredMore(calls[i - 1])
        /\ pc \in {"done", "raised"} =>
             /\ ~AnsweredMore(LastCall)
             /\ CountLsNext(Len(calls)) = CountMore(Len(calls))

\* C6 witness: a listing of three pages is over.
C6_Witness ==
    /\ cmd.op = "ls"
    /\ pc = "done"
    /\ Len(calls) = 3
    /\ calls[3].ret_code = SUCCESS

\* The names of a page as the protocol defines them: the maximal runs of
\* non-zero characters of the page's text, in order.
FirstZero(t) ==
    IF \E i \in 1..Len(t) : t[i] = 0
    THEN CHOOSE i \in 1..Len(t) : t[i] = 0 /\ \A j \in 1..(i - 1) : t[j] # 0
    ELSE Len(t) + 1
RECURSIVE NamesOf(_)
NamesOf(t) ==
    IF t = << >> THEN << >>
    ELSE IF FirstZero(t) = 1 THEN NamesOf(Tail(t))
    ELSE << SubSeq(t, 1, FirstZero(t) - 1) >>
             \o NamesOf(SubSeq(t, FirstZero(t), Len(t)))

\* A reply that carries a listing page the protocol accepts.
IsPage(resp) == resp # << >> /\ resp[1] \in {SUCCESS, MORE_ENTRIES}

\* The names of the accepted pages among the first n replies, in receive order.
RECURSIVE ListingOf(_)
ListingOf(n) ==
    IF n = 0 THEN << >>
    ELSE ListingOf(n - 1)
           \o (IF IsPage(calls[n].resp) THEN NamesOf(decode(Tail(calls[n].resp)))
               ELSE << >>)

\* C7: the list ls returns is the concatenation, in receive order, of the
\* non-empty zero-separated names of every page answered with MORE_ENTRIES
\* or SUCCESS: nothing sorted, nothing dropped but empty strings; the pages
\* "a\0b\0" (more) and "c\0" (success) give ["a", "b", "c"].
C7_ListingResult ==
    (cmd.op = "ls" /\ pc = "done") =>
        /\ result.kind = "list"
        /\ result.val = ListingOf(Len(calls))
        /\ \A i \in 1..Len(result.val) : result.val[i] # << >>
        /\ ( /\ Len(calls) = 2
             /\ calls[1].resp = << MORE_ENTRIES, 97, 0, 98, 0 >>
             /\ calls[2].resp = << SUCCESS, 99, 0 >> )
           => result.val = << << 97 >>, << 98 >>, << 99 >> >>

\* C7 witness: the listing of the two pages "a\0b\0" and "c\0" has returned.
C7_Witness ==
    /\ cmd.op = "ls"
    /\ pc = "done"
    /\ Len(calls) = 2
    /\ calls[1].resp = << MORE_ENTRIES, 97, 0, 98, 0 >>
    /\ calls[2].resp = << SUCCESS, 99, 0 >>
    /\ result.val = << << 97 >>, << 98 >>, << 99 >> >>

\* C7 witness: a returned listing keeps a repeated name and drops the empty
\* pieces between zero bytes.
C7_WitnessDuplicates ==
    /\ cmd.op = "ls"
    /\ pc = "done"
    /\ Len(calls) = 2
    /\ calls[1].resp = << MORE_ENTRIES, 0, 97, 0, 0, 98, 0, 0 >>
    /\ calls[2].resp = << SUCCESS, 255, 0, 97, 0, 97, 0 >>
    /\ result.val = << << 97 >>, << 98 >>, << 97 >>, << 97 >> >>

\* C8: a page answered with another status than SUCCESS or MORE_ENTRIES, or
\* not answered, makes ls stop without raising and return the entries of
\* the earlier pages only.
C8_FailingPageReturnsPartial ==
    (cmd.op = "ls" /\ Len(calls) >= 1 /\ ~IsPage(LastCall.resp)) =>
        /\ pc = "done"
        /\ result.kind = "list"
        /\ result.val = ListingOf(Len(calls) - 1)


\* ------------------------------------------------------- chunked writes
\* The payloads of the first n calls, one after the other.
RECURSIVE PayloadsUpTo(_)
PayloadsUpTo(n) ==
    IF n = 0 THEN << >> ELSE PayloadsUpTo(n - 1) \o calls[n].data

CeilDiv(a, b) == (a + b - 1) \div b

\* C9: on a device that answers SUCCESS every time, write of data longer
\* than DATA_SIZE = 26 bytes issues exactly ceil(n / 26) WRITE exchanges in
\* order of increasing offset: chunk i is the 26 bytes at offset 26 (i - 1),
\* only the last chunk may be shorter, none is empty, and the chunks put
\* together are the data.
C9_ChunkedWrite ==
    ( /\ cmd.op = "write"
      /\ pc = "done"
      /\ Len(cmd.arg) > DATA_SIZE
      /\ \A i \in 1..Len(calls) : calls[i].resp # << >> /\ calls[i].resp[1] = SUCCESS )
    =>
        /\ result.kind = "bool" /\ result.val = TRUE
        /\ Len(calls) = CeilDiv(Len(cmd.arg), DATA_SIZE)
        /\ \A i \in 1..Len(calls) :
             /\ calls[i].command_id = MODULE_CMD_WRITE
             /\ Len(calls[i].data) >= 1
             /\ Len(calls[i].data) <= DATA_SIZE
             /\ i < Len(calls) => Len(calls[i].data) = DATA_SIZE
             /\ \A k \in 1..Len(calls[i].data) :
                  calls[i].data[k] = cmd.arg[DATA_SIZE * (i - 1) + k]
        /\ PayloadsUpTo(Len(calls)) = cmd.arg

\* C9 witness: a write of more than two full chunks with a shorter last
\* chunk has returned True.
C9_Witness ==
    /\ cmd.op = "write"
    /\ pc = "done"
    /\ result.kind = "bool" /\ result.val = TRUE
    /\ Len(cmd.arg) > 2 * DATA_SIZE
    /\ Len(cmd.arg) % DATA_SIZE # 0
    /\ Len(calls) = 3

\* An exchange that returned a status other than SUCCESS.
ReturnedFailure(c) == ~c.raised /\ c.ret_code # SUCCESS

\* C10: in write, write_display_image and write_image_to_file the first
\* chunk whose exchange returns a status other than SUCCESS ends the
\* operation with failure: it is the last chunk sent, and the operation
\* issues nothing after it (the CLOSE that main sends after
\* write_image_to_file has returned is main's, and the only later packet).
C10_ChunkFailFast ==
    /\ cmd.op \in {"write", "write_display_image"} =>
         \A i \in 1..Len(calls) :
            /\ (ReturnedFailure(calls[i]) \/ calls[i].raised) => i = Len(calls)
            /\ ReturnedFailure(calls[i]) =>
                 pc = "done" /\ result.kind = "bool" /\ result.val = FALSE
    /\ cmd.op \in {"write_test_image", "write_test_anim", "write_image_file"} =>
         \A i \in 2..Len(calls) :
            calls[i].command_id = MODULE_CMD_WRITE =>
               /\ calls[i].raised => i = Len(calls)
               /\ ReturnedFailure(calls[i]) =>
                    /\ success = FALSE
                    /\ pc \in {"upload_close", "done", "raised"}
                    /\ pc = "upload_close" => i = Len(calls)
                    /\ \A j \in (i + 1)..Len(calls) :
                         /\ j = i + 1
                         /\ calls[j].command_id = MODULE_CMD_CLOSE
                         /\ pc \in {"done", "raised"}

\* C10 witness: a write of three chunks has returned False after its second
\* chunk failed, the third chunk unsent.
C10_Witness ==
    /\ cmd.op = "write"
    /\ pc = "done"
    /\ result.kind = "bool" /\ result.val = FALSE
    /\ Len(calls) = 2
    /\ Len(data_chunks) = 2
    /\ calls[1].ret_code = SUCCESS
    /\ calls[2].ret_code # SUCCESS

\* C10 witness: write_image_to_file has just returned False after its second
\* chunk failed, with image data left over.
C10_WitnessImage ==
    /\ cmd.op \in {"write_test_image", "write_test_anim", "write_image_file"}
    /\ pc = "upload_close"
    /\ success = FALSE
    /\ Len(calls) = 3
    /\ bytes_written + DATA_SIZE < Len(cmd.arg)

\* C11: FileSystem.write with empty data issues exactly one WRITE exchange,
\* whose payload is empty, and returns that exchange's success; with
\* non-empty data no chunk, sent or still to send, is empty.
C11_EmptyWrite ==
    cmd.op = "write" =>
        /\ Len(cmd.arg) = 0 =>
              /\ Len(calls) <= 1
              /\ pc = "write_loop" => Len(calls) + Len(data_chunks) = 1
              /\ pc \in {"done", "raised"} => Len(calls) = 1
              /\ \A i \in 1..Len(calls) :
                    /\ calls[i].command_id = MODULE_CMD_WRITE
                    /\ calls[i].data = << >>
              /\ pc = "done" =>
                    /\ result.kind = "bool"
                    /\ result.val = (calls[1].ret_code = SUCCESS)
        /\ Len(cmd.arg) > 0 =>
              /\ \A i \in 1..Len(calls) : Len(calls[i].data) >= 1
              /\ \A k \in 1..Len(data_chunks) : Len(data_chunks[k]) >= 1

\* C11 witness: a write of empty data has returned True after one exchange.
C11_Witness ==
    /\ cmd.op = "write"
    /\ Len(cmd.arg) = 0
    /\ pc = "done"
    /\ Len(calls) = 1
    /\ calls[1].data = << >>
    /\ result.kind = "bool" /\ result.val = TRUE

\* C11 witness: a write of empty data has returned False, its one exchange
\* having returned a status other than SUCCESS.
C11_WitnessFailure ==
    /\ cmd.op = "write"
    /\ Len(cmd.arg) = 0
    /\ pc = "done"
    /\ Len(calls) = 1
    /\ result.kind = "bool" /\ result.val = FALSE

\* ------------------------------------------------------ bulk transfer
\* Neither the output directory nor the serial port has been touched.
Untouched ==
    /\ dir_kind = dir0.kind
    /\ disk = dir0.files
    /\ pos = 0
    /\ last_read = NoRead

\* C12: ls_all puts exactly one packet, of opcode 0x61, on the HID
\* transport and reads nothing from it; the packet goes out while the output
\* directory and the serial port are still untouched, and nothing more is
\* put on the HID transport for the rest of ls_all.
C12_TriggerOnceAndFirst ==
    /\ [](cmd.op = "ls_all" =>
            /\ Len(hidlog) = 1
            /\ hidlog[1].kind = "write"
            /\ hidlog[1].bytes[2] = 97
            /\ calls = << >>)
    /\ [][hidlog' # hidlog => (hidlog = << >> /\ Untouched /\ Untouched')]_vars
    /\ [][cmd.op = "ls_all" => hidlog' = hidlog]_vars

\* C12 witness: ls_all has received a file and returned, the trigger still
\* the only event on the HID transport.
C12_Witness ==
    /\ cmd.op = "ls_all"
    /\ pc = "done"
    /\ Len(saved_files) >= 1
    /\ Len(hidlog) = 1
    /\ dir_kind = "dir" /\ dir0.kind = "dir" /\ disk # dir0.files

\* The run went through the receive loop with no failure of the serial
\* port, of the port search or of the directory.
LoopEnded ==
    /\ pc = "done"
    /\ ended \in {"marker", "timeout_first", "timeout_end", "short_size",
                   "data_timeout", "io_error"}

\* Every file name the device sends is plain text.
TextNames == \A i \in 1..Len(sent) : decode(sent[i].name) = sent[i].name
NamesSent == [i \in 1..Len(sent) |-> sent[i].name]
FilesPresent == { n \in FileNames : disk[n] # Absent }

\* C13: when the whole stream of n well-formed frames and the end marker is
\* delivered with no read coming back short, the loop ends on the end
\* marker with n files counted, ls_all returns the n names in stream order,
\* and every frame's file holds that frame's payload (n files in all in the
\* directory ls_all cleared); so f1.raw / xyz alone leaves f1.raw = xyz.
C13_WellFormedStream ==
    (LoopEnded /\ TextNames /\ ~timed_out /\ ended # "io_error") =>
        /\ ended = "marker"
        /\ pos = Len(stream)
        /\ files_received_count = Len(sent)
        /\ \A i \in 1..Len(sent) : disk[sent[i].name] = sent[i].payload
        /\ cmd.op = "ls_all" =>
              /\ result = RList(NamesSent)
              /\ Cardinality(FilesPresent) = Len(sent)
        /\ cmd.op = "receive_files_via_cdc" => result = RBool(TRUE)

\* The receive loop awaits (more of) a file name.
AwaitFilename == pc \in {"ls_all_filename", "rc_filename"}

\* The step reads the zero byte while no byte of a file name is held.
ReadsEndMarker ==
    /\ AwaitFilename
    /\ filename_bytes = << >>
    /\ pos' = pos + 1
    /\ stream[pos + 1] = 0

\* What the operation returns when its loop is left in the regular way.
RegularResult ==
    IF cmd.op = "ls_all" THEN RList(saved_files) ELSE RBool(TRUE)

\* C14: a zero byte read as the first byte of a file name ends the loop
\* at once and for good: that read is the last one, no file is created or
\* changed, the files and counters are as they were, receive_files_via_cdc
\* returns True and ls_all its list.
C14_EndMarker ==
    /\ [][ReadsEndMarker =>
             /\ pc' = "done"
             /\ ended' = "marker"
             /\ last_read' = [what |-> "filename", asked |-> 1, got |-> << 0 >>,
                              timeout |-> READ_TIMEOUT_INTER_FILE]
             /\ disk' = disk
             /\ saved_files' = saved_files
             /\ files_received_count' = files_received_count
             /\ result' = RegularResult]_vars
    /\ [][pc = "done" => FALSE]_vars
    /\ [](ended = "marker" => pc = "done" /\ result = RegularResult)

\* C14 witness: receive_files_via_cdc has returned True on the end marker
\* after two files, both in place.
C14_Witness ==
    /\ cmd.op = "receive_files_via_cdc"
    /\ ended = "marker"
    /\ files_received_count = 2
    /\ result = RBool(TRUE)
    /\ disk[NameA] = << 120 >>
    /\ disk[NameF1Raw] = << 120, 121, 122 >>

\* C14 witness: ls_all has returned on the end marker that opened the
\* stream, with no file.
C14_WitnessEmpty ==
    /\ cmd.op = "ls_all"
    /\ ended = "marker"
    /\ sent = << >>
    /\ result = RList(<< >>)
    /\ FilesPresent = {}

\* The step is a read for the file name that comes back empty.
FilenameTimeout ==
    /\ AwaitFilename
    /\ last_read' # last_read
    /\ last_read'.what = "filename"
    /\ last_read'.got = << >>

\* C15 as stated: in both loops a timeout on the file name before any file
\* was received ends the operation with an outcome unlike that of a regular
\* end of transfer, and no file is saved.
C15_FirstTimeoutIsError ==
    [][(FilenameTimeout /\ files_received_count = 0) =>
          /\ pc' = "done"
          /\ result' # RegularResult
          /\ disk' = disk
          /\ files_received_count' = 0]_vars

\* C15, amended: a timeout on the file name before any file was received
\* ends the operation with no file saved; receive_files_via_cdc returns
\* False, ls_all returns its empty list, as it does on an end marker that
\* opens the stream.
C15_FirstTimeout ==
    /\ [][(FilenameTimeout /\ files_received_count = 0) =>
             /\ pc' = "done"
             /\ disk' = disk
             /\ files_received_count' = 0
             /\ cmd.op = "receive_files_via_cdc" => result' = RBool(FALSE)
             /\ cmd.op = "ls_all" => result' = RList(<< >>)]_vars
    /\ []((AwaitFilename /\ files_received_count = 0) =>
             disk = IF cmd.op = "ls_all" THEN EmptyDir ELSE dir0.files)

\* C15 witness: receive_files_via_cdc has returned False after a timeout on
\* the second byte of the first file name.
C15_Witness ==
    /\ cmd.op = "receive_files_via_cdc"
    /\ pc = "done"
    /\ ended = "timeout_first"
    /\ pos = 1
    /\ last_read.what = "filename" /\ last_read.got = << >>
    /\ files_received_count = 0
    /\ result = RBool(FALSE)

\* C15 witness: ls_all has returned its empty list after a timeout on the
\* first byte of the stream.
C15_WitnessLsAll ==
    /\ cmd.op = "ls_all"
    /\ pc = "done"
    /\ ended = "timeout_first"
    /\ pos = 0
    /\ last_read.what = "filename" /\ last_read.got = << >>
    /\ result = RList(<< >>)

\* C16: in both loops a timeout on the file name after at least one file
\* was received ends the transfer there, whatever part of a file name is
\* held: the operation returns as on a regular end, that read is the last
\* one, and the files, the list and the counters stay as they were.
C16_LaterTimeoutEnds ==
    [][(FilenameTimeout /\ files_received_count >= 1) =>
          /\ pc' = "done"
          /\ result' = RegularResult
          /\ disk' = disk
          /\ saved_files' = saved_files
          /\ files_received_count' = files_received_count]_vars

\* The step is a read for the size that brings fewer than four bytes.
ShortSizeRead ==
    /\ pc \in {"ls_all_size", "rc_size"}
    /\ last_read' # last_read
    /\ last_read'.what = "size"
    /\ Len(last_read'.got) < 4

\* C17: a read for the size that brings fewer than four bytes ends the
\* whole loop: no file is created or opened for the frame, no read follows,
\* and the files saved before stay in place, in the counters and in the
\* returned list.
C17_ShortSizeAborts ==
    /\ [][ShortSizeRead =>
             /\ pc' = "done"
             /\ disk' = disk
             /\ saved_files' = saved_files
             /\ files_received_count' = files_received_count
             /\ pos' = pos + Len(last_read'.got)
             /\ result' = RegularResult]_vars
    /\ [][pc = "done" => UNCHANGED << pos, last_read, disk, result >>]_vars

\* C17 witness: ls_all has returned the one file it saved after the size of
\* the second frame came back two bytes long.
C17_Witness ==
    /\ cmd.op = "ls_all"
    /\ pc = "done"
    /\ ended = "short_size"
    /\ last_read.what = "size" /\ Len(last_read.got) = 2
    /\ saved_files = << NameA >>
    /\ result = RList(<< NameA >>)
    /\ disk[NameA] = << 120 >>
    /\ disk[NameB] = Absent

\* The step is a read for payload data that comes back empty.
DataTimeout ==
    /\ pc \in {"ls_all_data", "rc_data"}
    /\ last_read' # last_read
    /\ last_read'.what = "data"
    /\ last_read'.got = << >>

C19_SavedFilesSurvive ==
    (cmd.op = "ls_all" /\ pc = "done" /\ ended = "data_timeout") =>
        /\ result.kind = "list"
        /\ Len(result.val) <= Len(sent)
        /\ \A i \in 1..Len(result.val) :
              /\ result.val[i] = decode(sent[i].name)
              /\ disk[result.val[i]] # Absent
              /\ disk[result.val[i]] = sent[i].payload

\* The files output_dir held before the run, and those of them that are
\* still there as they were.
OldFiles == { n \in FileNames : dir0.kind = "dir" /\ dir0.files[n] # Absent }
StillVisible == { n \in OldFiles : disk[n] = dir0.files[n] }
HasRead == pos > 0 \/ last_read # NoRead

C20_WitnessKept ==
    /\ cmd.op = "receive_files_via_cdc"
    /\ pc = "done"
    /\ ended = "marker"
    /\ sent = << >>
    /\ Cardinality(StillVisible) = 2

\* The stream position at which the k-th frame ends.
FrameEnd(k) == Len(stream_of(SubSeq(sent, 1, k))) - 1

\* The loop was left on a protocol error.
ProtocolError == ended \in {"short_size", "data_timeout", "io_error", "serial_error"}

\* C21: ls_all never raises; when a short size, a data timeout, a failing
\* open or write of the file, or a serial exception ends the loop, it
\* returns the names of the frames that were received in full before the
\* error, in stream order, and no other name.
C21_LsAllReturnsPartial ==
    cmd.op = "ls_all" =>
        /\ pc # "raised"
        /\ ProtocolError =>
              /\ pc = "done"
              /\ result.kind = "list"
              /\ Len(result.val) = files_received_count
              /\ Len(result.val) <= Len(sent)
              /\ \A i \in 1..Len(result.val) : result.val[i] = decode(sent[i].name)
              /\ \A k \in 1..Len(sent) : k <= Len(result.val) => FrameEnd(k) <= pos
              /\ \A k \in 1..Len(sent) :
                    (k > Len(result.val) /\ decode(sent[k].name) # << >>) => FrameEnd(k) > pos

\* C21 witness: ls_all has returned the one file received before a frame
\* whose file could not be opened.
C21_Witness ==
    /\ cmd.op = "ls_all"
    /\ pc = "done"
    /\ ended = "io_error"
    /\ Len(sent) = 2
    /\ sent[2].name = NameInvalid
    /\ result = RList(<< NameA >>)

\* C21 witness: ls_all has returned the one file received before the serial
\* port failed during the data of the second frame.
C21_WitnessSerial ==
    /\ cmd.op = "ls_all"
    /\ pc = "done"
    /\ ended = "io_error"
    /\ last_read.what = "data"
    /\ received_bytes = 1
    /\ result = RList(<< NameA >>)
    /\ disk[NameF1Raw] = << 120 >>

\* C21 witness: ls_all has returned the one file received before the serial
\* port failed between two frames.
C21_WitnessBetween ==
    /\ cmd.op = "ls_all"
    /\ pc = "done"
    /\ ended = "serial_error"
    /\ result = RList(<< NameB >>)

\* ------------------------------------------------------------- the sender
\* The frame of a file: file name, zero byte, size header, payload.
FrameOf(filename, data) ==
    encode(filename) \o << 0 >> \o pack_u32_le(Len(data)) \o data

\* C22: when send_file_over_cdc has returned, the port has accepted the
\* file name, a zero byte, the four-byte little-endian size header and then
\* exactly as many payload bytes as the header declares, the payload itself,
\* whatever the writes reported.
C22_WireCarriesDeclaredSize ==
    (cmd.op = "send_file_over_cdc" /\ pc = "done") =>
        LET filename == cmd.arg.filename_on_device
            data == cmd.arg.data
            head == Len(encode(filename)) + 1
        IN  /\ Len(wire) - (head + 4) = unpack_u32_le(SubSeq(wire, head + 1, head + 4))
            /\ wire = FrameOf(filename, data)


\* -------------------------------------------------------------- C23
\* the 5/6/5 truncation of a colour, by place value
Packed565(px) == 2048 * (px[1] \div 8) + 32 * (px[2] \div 4) + (px[3] \div 8)

\* the pixels a converter has gone through
PixelsDone == SubSeq(cmd.arg.pixels, 1, Len(rgb565_data) \div 2)

\* the bytes of the pixels, each value high byte first
RECURSIVE HighByteFirst(_)
HighByteFirst(pixels) ==
    IF pixels = << >>
    THEN << >>
    ELSE << Packed565(Head(pixels)) \div 256, Packed565(Head(pixels)) % 256 >>
         \o HighByteFirst(Tail(pixels))

\* C23: for every colour handed to image_to_rgb565 or process_image_frame
\* the value written is ((r>>3)<<11) | ((g>>2)<<5) | (b>>3), it lies in
\* 0..0xFFFF, its high byte is written first, white is written as 0xFFFF,
\* and the two converters compute the same value for the colour; struct.pack
\* never raises, and at the return every pixel was written.
C23_Rgb565Encoding ==
    (cmd.op \in {"image_to_rgb565", "process_image_frame"}) =>
        /\ pc # "raised"
        /\ rgb565_data = HighByteFirst(PixelsDone)
        /\ pc = "done" => /\ PixelsDone = cmd.arg.pixels
                          /\ result.val = rgb565_data
        /\ \A i \in 1..Len(cmd.arg.pixels) :
             LET px == cmd.arg.pixels[i] IN
             /\ rgb565_of_pixel(px) = Packed565(px)
             /\ rgb565_of_pixel(px) \in 0..65535
             /\ rgb565_of_pixel(px) = frame_rgb565_of_pixel(px)
             /\ px = << 255, 255, 255 >> => rgb565_of_pixel(px) = 65535

\* image_to_rgb565 returned the bytes of an image of two pixels, the first
\* of them white.
C23_Witness ==
    /\ cmd.op = "image_to_rgb565"
    /\ pc = "done"
    /\ Len(cmd.arg.pixels) = 2
    /\ cmd.arg.pixels[1] = << 255, 255, 255 >>
    /\ SubSeq(rgb565_data, 1, 2) = << 255, 255 >>

\* process_image_frame returned the bytes of a pixel whose two bytes differ
\* and whose three fields are all non-zero.
C23_WitnessFrame ==
    /\ cmd.op = "process_image_frame"
    /\ pc = "done"
    /\ cmd.arg.pixels = << << 18, 52, 86 >>, << 255, 255, 255 >> >>
    /\ rgb565_data = << 17, 170, 255, 255 >>

\* -------------------------------------------------------------- C24
\* the three palette values and their colours widened to 8 bits a channel
PaletteValues == << 57351, 248, 7936 >>
PaletteColours == << << 231, 0, 57 >>, << 0, 28, 198 >>, << 24, 227, 0 >> >>

SquaredDistance(c1, c2) ==
    (c1[1] - c2[1]) * (c1[1] - c2[1]) + (c1[2] - c2[2]) * (c1[2] - c2[2])
        + (c1[3] - c2[3]) * (c1[3] - c2[3])

\* the lowest index among the palette entries nearest to the colour
Nearest(px) ==
    CHOOSE i \in 1..3 :
        /\ \A j \in 1..3 :
             SquaredDistance(px, PaletteColours[i]) <= SquaredDistance(px, PaletteColours[j])
        /\ \A j \in 1..(i - 1) :
             SquaredDistance(px, PaletteColours[i]) < SquaredDistance(px, PaletteColours[j])

\* two palette entries are equally near to the colour and no entry is nearer
Tie(px) ==
    \E i, j \in 1..3 :
        /\ i # j
        /\ SquaredDistance(px, PaletteColours[i]) = SquaredDistance(px, PaletteColours[j])
        /\ \A k \in 1..3 :
             SquaredDistance(px, PaletteColours[i]) <= SquaredDistance(px, PaletteColours[k])

RECURSIVE NearestBytes(_)
NearestBytes(pixels) ==
    IF pixels = << >>
    THEN << >>
    ELSE << PaletteValues[Nearest(Head(pixels))] \div 256,
            PaletteValues[Nearest(Head(pixels))] % 256 >>
         \o NearestBytes(Tail(pixels))

\* C24: for every colour image_to_rgb565_quantized writes one of the three
\* palette values, the one whose widened colour is nearest to the input by
\* squared Euclidean distance, the lowest-indexed one on a tie; the output
\* is a function of the input alone, so it is the same on every run.
C24_QuantizedNearest ==
    (cmd.op = "image_to_rgb565_quantized") =>
        /\ pc # "raised"
        /\ rgb565_data = NearestBytes(PixelsDone)
        /\ processed_pixels = [i \in 1..Len(PixelsDone) |->
                                  PaletteColours[Nearest(PixelsDone[i])]]
        /\ pc = "done" => /\ PixelsDone = cmd.arg.pixels
                          /\ result.val = rgb565_data

\* image_to_rgb565_quantized returned the first palette value for a colour
\* that is as near to the second palette entry as to the first.
C24_Witness ==
    /\ cmd.op = "image_to_rgb565_quantized"
    /\ pc = "done"
    /\ cmd.arg.pixels = << << 40, 8, 5 >> >>
    /\ Tie(<< 40, 8, 5 >>)
    /\ rgb565_data = << 224, 7 >>

\* the third palette value was returned for a colour nearest to its entry
C24_WitnessThird ==
    /\ cmd.op = "image_to_rgb565_quantized"
    /\ pc = "done"
    /\ cmd.arg.pixels = << << 0, 255, 0 >> >>
    /\ ~Tie(<< 0, 255, 0 >>)
    /\ rgb565_data = << 31, 0 >>

\* -------------------------------------------------------------- C25
SingleCommandOps ==
    { "cd", "rm", "mkdir", "touch", "open", "close", "format_filesystem",
      "choose_image", "write_display", "set_time", "set_wpm_anim",
      "set_wpm_config" }

\* the operation is over, by a return or by an exception
Over == pc \in {"done", "raised"}

\* the arguments of the operation fit the bytes of its command
ArgumentsFit ==
    (cmd.op \in {"set_time", "set_wpm_config"}) =>
        \A i \in 1..Len(cmd.arg) : IsU8(cmd.arg[i])

\* the status of an exchange: the first byte read, None when nothing was read
StatusRead(c) == IF c.resp = << >> THEN None ELSE c.resp[1]

\* C25: a single-command operation whose arguments fit its command makes
\* exactly one exchange and returns a boolean that is True exactly when the
\* status read is SUCCESS; when nothing was read it returns False; it does
\* not end by an exception.
C25_SingleCommandOutcome ==
    (cmd.op \in SingleCommandOps /\ Over /\ ArgumentsFit) =>
        /\ Len(calls) = 1
        /\ pc = "done"
        /\ result = RBool(StatusRead(calls[1]) = SUCCESS)

\* -------------------------------------------------------------- C26
AwaitSize == pc \in {"ls_all_size", "rc_size"}
AwaitData == pc \in {"ls_all_data", "rc_data"}

\* the files of the output directory that the step changes
Touched == { n \in FileNames : disk'[n] # disk[n] }

\* the file of the frame at hand and, for a .raw file, the picture made of it
FrameFiles ==
    LET filename == decode(filename_bytes) IN
    { filename } \cup (IF endswith(lower(filename), DotRaw)
                       THEN { png_name(filename) } ELSE {})

\* The loop goes over to the size: a zero byte was just read behind a name
\* that is not empty.
EntersSize ==
    (~AwaitSize /\ AwaitSize') =>
        /\ AwaitFilename
        /\ last_read'.what = "filename"
        /\ last_read'.got = << 0 >>
        /\ filename_bytes' # << >>

\* The loop goes over to the data: the four bytes of the size were just read.
EntersData ==
    (~AwaitData /\ AwaitData') =>
        /\ AwaitSize
        /\ last_read'.what = "size"
        /\ Len(last_read'.got) = 4

\* The loop goes back to the file name: the file of the frame holds as many
\* bytes as the size says and was counted.
EntersFilename ==
    ((AwaitSize \/ AwaitData) /\ AwaitFilename') =>
        /\ received_bytes' = expected_size'
        /\ Len(disk'[decode(filename_bytes)]) = expected_size'
        /\ files_received_count' = files_received_count + 1

\* While a frame is handled no file but the frame's changes.
OneFileAtATime ==
    (AwaitFilename \/ AwaitSize \/ AwaitData) => Touched \subseteq FrameFiles

\* C26: both receive loops take a frame through file name, size and data in
\* that order: the size is read only behind a non-empty name ended by a zero
\* byte, the data only behind a size of four bytes, the next name only when
\* the file was written in full and counted, and only the file of the frame
\* at hand is written.
C26_FrameOrder ==
    [][EntersSize /\ EntersData /\ EntersFilename /\ OneFileAtATime]_vars

\* -------------------------------------------------------------- C27
\* the bytes of the stream behind the size that was read last, as far as
\* the loop has taken them
PayloadRead == SubSeq(stream, pos - received_bytes + 1, pos)

\* the four bytes of the stream before them
HeaderRead == SubSeq(stream, pos - received_bytes - 3, pos - received_bytes)

\* In a state of the data loop: no more bytes were taken than the size
\* says, they are the bytes behind the size, and the file holds them.
DataWithinFrame ==
    AwaitData =>
        /\ received_bytes < expected_size
        /\ unpack_u32_le(HeaderRead) = expected_size
        /\ disk[decode(filename_bytes)] = PayloadRead

\* A read of the data asks for the smaller of READ_CHUNK and what the size
\* leaves, and gets no more than that.
DataReadAsks ==
    (AwaitData /\ last_read' # last_read) =>
        /\ last_read'.what = "data"
        /\ last_read'.asked = Min(4096, expected_size - received_bytes)
        /\ Len(last_read'.got) <= last_read'.asked
        /\ received_bytes' = received_bytes + Len(last_read'.got)
        /\ received_bytes' <= expected_size
        /\ pos' = pos + Len(last_read'.got)

\* A step that counts a file: all the bytes the size says were received,
\* and the file holds exactly the bytes of the stream behind the size.
CountsWholeFile ==
    (files_received_count' # files_received_count) =>
        /\ files_received_count' = files_received_count + 1
        /\ received_bytes' = expected_size'
        /\ unpack_u32_le(SubSeq(stream, pos' - expected_size' - 3, pos' - expected_size'))
               = expected_size'
        /\ disk'[decode(filename_bytes)]
               = SubSeq(stream, pos' - expected_size' + 1, pos')

\* C27: in both loops the bytes received for a frame never exceed the size
\* read for it, every read of the data asks for min(4096, size - received)
\* bytes, a file is counted only with received = size, and it then holds
\* exactly the size bytes behind the header, however the reads were split.
C27_DataBounded ==
    /\ []DataWithinFrame
    /\ [][DataReadAsks /\ CountsWholeFile]_vars

\* A payload of 4097 bytes was received in a read of 4095 bytes of the 4096
\* asked for and later reads of the rest, and the file was counted.
C27_Witness ==
    /\ AwaitFilename
    /\ files_received_count = 1
    /\ expected_size = 4097
    /\ received_bytes = 4097
    /\ last_read.what = "data"
    /\ last_read.asked = 1
    /\ disk[NameB] = Pattern(4097)

\* A payload of ten bytes is held in part after a short read.
C27_WitnessSplit ==
    /\ AwaitData
    /\ expected_size = 10
    /\ received_bytes = 3
    /\ last_read.asked = 10

\* -------------------------------------------------------------- C28
\* the loop was left behind a frame that was given up
FrameAborted ==
    /\ pc = "done"
    /\ ended \in {"short_size", "data_timeout", "io_error"}

\* C28: in both loops every read of a byte of the file name and every read
\* of the size is made under the inter-file timeout of 5 s and every read
\* of the data under the data timeout of 2 s; whenever the loop awaits a
\* file name, and after a frame that was given up, the timeout of the port
\* is the inter-file timeout.
C28_TimeoutProfile ==
    /\ last_read.what \in {"filename", "size"} => last_read.timeout = 5
    /\ last_read.what = "data" => last_read.timeout = 2
    /\ AwaitFilename => ser_timeout = 5
    /\ AwaitData => ser_timeout = 2
    /\ FrameAborted => ser_timeout = 5

\* The byte of a file name was read under 5 s behind a frame whose data was
\* read under 2 s.
C28_Witness ==
    /\ files_received_count = 1
    /\ received_bytes > 0
    /\ last_read.what = "filename"
    /\ last_read.timeout = 5
    /\ ser_timeout = 5

\* The data of a frame is being read under 2 s.
C28_WitnessData ==
    /\ AwaitData
    /\ last_read.what = "data"
    /\ last_read.timeout = 2

\* A frame was given up on a timeout of its data and the timeout is 5 s again.
C28_WitnessAborted ==
    /\ FrameAborted
    /\ ended = "data_timeout"
    /\ last_read.timeout = 2
    /\ ser_timeout = 5

\* -------------------------------------------------------------- C29
\* C29: every execute_command call whose read brought a response returns
\* the first byte of the response as the status and all the bytes behind it,
\* in their order, as the payload.
C29_PassThrough ==
    \A i \in 1..Len(calls) :
        calls[i].resp # << >> =>
            /\ ~calls[i].raised
            /\ calls[i].ret_code = calls[i].resp[1]
            /\ << calls[i].ret_code >> \o calls[i].response = calls[i].resp

\* -------------------------------------------------------------- C30
\* C30: receive_files_via_cdc returns True exactly when the loop was left
\* on the empty file name or on silence behind at least one file; left on a
\* short size, a timeout of the data, a file error, a serial error or a
\* timeout before the first file, it returns False.
C30_SuccessOnlyOnCleanEnd ==
    (cmd.op = "receive_files_via_cdc" /\ pc = "done") =>
        /\ result.kind = "bool"
        /\ result.val <=> ended \in {"marker", "timeout_end"}

\* -------------------------------------------------------------- C31
\* C31: the response an execute_command call returns is the device's answer
\* to the packet of that call, never the answer to an earlier packet of the
\* session.
C31_ReplyToSameCommand ==
    \A i \in 1..Len(calls) :
        calls[i].resp # << >> => calls[i].reply_to = calls[i].sent_as

\* -------------------------------------------------------------- C32
\* C32: handed the same stream with the same pauses, the loop of
\* receive_files_via_cdc leaves what the loop of ls_all has left: the same
\* files with the same contents, as many files and bytes counted, and the
\* same number of bytes of the stream consumed.
C32_LoopsAgree ==
    (first.ran /\ cmd.op = "receive_files_via_cdc" /\ pc = "done") =>
        /\ disk = first.disk
        /\ pos = first.pos
        /\ files_received_count = first.files_received_count
        /\ total_bytes_received = first.total_bytes_received

\* -------------------------------------------------------------- C33
\* A receive loop has read from the port what the sender wrote, and is over.
TripOver ==
    /\ sent # << >>
    /\ cmd.op \in {"ls_all", "receive_files_via_cdc"}
    /\ last_read.what # "none"
    /\ pc = "done"

\* Every write of the sender took all it was given.
WritesComplete ==
    Len(stream) = Len(sent[1].name) + 1 + 4 + Len(sent[1].payload) + 1

\* One file, of the sender's filename and data, and no other.
OneFileSaved ==
    LET filename == sent[1].filename_on_device IN
    /\ files_received_count = 1
    /\ disk[filename] = sent[1].payload
    /\ \A n \in FileNames \ {filename} : disk[n] = Absent
    /\ cmd.op = "ls_all" => result = RList(<< filename >>)

\* The name of a file that can be created in a directory: not ".", not
\* "..", and without a path separator.
PlainFileName(filename) ==
    /\ filename # NameDot
    /\ filename # << 46, 46 >>
    /\ \A i \in 1..Len(filename) : filename[i] # 47

C33_WitnessAccent ==
    /\ TripOver
    /\ WritesComplete
    /\ sent[1].filename_on_device = NameAccent
    /\ sent[1].payload = << >>
    /\ cmd.op = "receive_files_via_cdc"
    /\ OneFileSaved

\* -------------------------------------------------------------- C34
\* The sizes the first k frames of the stream declare, added up.
RECURSIVE DeclaredSizes(_)
DeclaredSizes(k) ==
    IF k = 0 THEN 0 ELSE DeclaredSizes(k - 1) + Len(sent[k].payload)

\* The counters of ls_all say what its list holds.
CountersAgree ==
    cmd.op = "ls_all" =>
        /\ files_received_count = Len(saved_files)
        /\ files_received_count <= Len(sent)
        /\ total_bytes_received = DeclaredSizes(files_received_count)

\* A step of ls_all leaves the counters and the list alone, or it adds one
\* file to the list, one to the count and the declared size of the frame to
\* the bytes.
CountersGrow ==
    (cmd.op = "ls_all" /\ cmd'.op = "ls_all") =>
        \/ /\ saved_files' = saved_files
           /\ files_received_count' = files_received_count
           /\ total_bytes_received' = total_bytes_received
        \/ /\ Len(saved_files') = Len(saved_files) + 1
           /\ SubSeq(saved_files', 1, Len(saved_files)) = saved_files
           /\ files_received_count' = files_received_count + 1
           /\ total_bytes_received' = total_bytes_received + expected_size'

\* C34: in every state of a run of ls_all files_received_count is the length
\* of saved_files and total_bytes_received the sum of the declared sizes of
\* the saved frames, and counters and list only grow, one file at a time.
C34_CountersMatchList == []CountersAgree /\ [][CountersGrow]_vars

\* Two files are listed and counted, with their bytes.
C34_Witness ==
    /\ cmd.op = "ls_all"
    /\ Len(saved_files) = 2
    /\ files_received_count = 2
    /\ total_bytes_received = 11

\* -------------------------------------------------------------- C35
\* A receive loop is at one of its reads.
InLoop ==
    pc \in {"ls_all_filename", "ls_all_size", "ls_all_data",
            "rc_filename", "rc_size", "rc_data"}

\* The operation has returned (or raised).
Returned == pc \in {"done", "raised"}

\* C35: on a finite stream followed by silence, a receive loop that is
\* reading is left, and the operation returns, wherever the stream stops.
C35_LoopTerminates == InLoop ~> Returned

\* The stream stopped in the middle of a payload, and the loop was left; it
\* stopped in the middle of a size, and the loop was left.
C35_Witness ==
    /\ ended = "data_timeout"
    /\ 0 < received_bytes
    /\ received_bytes < expected_size
    /\ Returned
C35_WitnessSize ==
    /\ ended = "short_size"
    /\ Len(last_read.got) \in 1..3
    /\ Returned

\* -------------------------------------------------------------- C36
\* The paging loop of ls is running.
LsPaging == cmd.op = "ls" /\ pc = "ls_loop"

\* ls has returned or raised.
LsOver == cmd.op = "ls" /\ pc \in {"done", "raised"}

\* The device has answered every page so far with MORE_ENTRIES, up to the
\* most pages the model follows, and the loop is still running.
StillMore ==
    /\ LsPaging
    /\ Len(calls) = MaxPages
    /\ \A i \in 1..Len(calls) : calls[i].resp # << >> /\ calls[i].resp[1] = MORE_ENTRIES

\* ls is never over after an answer of MORE_ENTRIES: the page before its
\* end was not answered, or with another status.
NoEndAfterMore ==
    LsOver => (calls[Len(calls)].resp = << >>
                \/ calls[Len(calls)].resp[1] # MORE_ENTRIES)

\* A page answered with MORE_ENTRIES is followed by the request of the next.
MoreAsksAgain ==
    (LsPaging /\ Len(calls') = Len(calls) + 1) =>
        /\ calls[Len(calls)].resp # << >>
        /\ calls[Len(calls)].resp[1] = MORE_ENTRIES
        /\ calls'[Len(calls')].command_id = MODULE_CMD_LS_NEXT

\* C36: ls ends once a page is answered with a status other than
\* MORE_ENTRIES or not at all, and only then: as long as the device answers
\* MORE_ENTRIES the loop asks for the next page, without a bound of its own.
C36_LsEndsUnlessMore ==
    /\ (LsPaging ~> (LsOver \/ StillMore))
    /\ []NoEndAfterMore
    /\ [][MoreAsksAgain]_vars

\* After as many pages as the model follows the loop is still asking; and a
\* listing of two pages has ended on SUCCESS.
C36_Witness == StillMore
C36_WitnessEnded ==
    /\ LsOver
    /\ pc = "done"
    /\ Len(calls) = 2
    /\ calls[1].resp[1] = MORE_ENTRIES
    /\ calls[2].resp # << >>
    /\ calls[2].resp[1] = SUCCESS

\* -------------------------------------------------------------- C37
\* image_to_rgb565 has encoded the widened colour of an RGB565 value.
WidenedEncoded ==
    /\ cmd.op = "image_to_rgb565"
    /\ pc = "done"
    /\ "rgb565" \in DOMAIN cmd.arg

\* The bytes of one pixel have been read back as a colour.
ReadBack == cmd.op = "image_to_rgb565" /\ pc = "converted"

\* The colours that are the widening of some RGB565 value: in each channel
\* the low bits repeat the high bits.
IsWidened(c) ==
    /\ c[1] % 8 = c[1] \div 32
    /\ c[2] % 4 = c[2] \div 64
    /\ c[3] % 8 = c[3] \div 32

\* C37: the 5/6/5 truncation of the widened colour of a 16-bit value v is v
\* again; the widening of a truncated colour is the colour again only for
\* the widened colours, so every other 8-bit colour is not given back.
C37_WidenThenTruncate ==
    /\ WidenedEncoded =>
           /\ rgb565_data = pack_H(cmd.arg.rgb565)
           /\ result.val = << cmd.arg.rgb565 \div 256, cmd.arg.rgb565 % 256 >>
    /\ ReadBack =>
           (result.val = cmd.arg.pixels <=> IsWidened(cmd.arg.pixels[1]))

\* The value 0xFFFF has come back from its colour, white; the colour
\* (1, 0, 0) has come back as black.
C37_Witness ==
    /\ WidenedEncoded
    /\ cmd.arg.rgb565 = 65535
    /\ cmd.arg.pixels = << << 255, 255, 255 >> >>
    /\ result.val = << 255, 255 >>
C37_WitnessLossy ==
    /\ ReadBack
    /\ cmd.arg.pixels = << << 1, 0, 0 >> >>
    /\ result.val = << << 0, 0, 0 >> >>

\* -------------------------------------------------------------- C38
\* One of the three image-upload flows of main.
UploadFlow == cmd.op \in {"write_test_image", "write_test_anim", "write_image_file"}

\* fs.open has returned True: OPEN was answered with SUCCESS.
OpenSucceeded == ~calls[1].raised /\ calls[1].ret_code = SUCCESS

\* The exchanges of the flow so far: OPEN, then WRITEs, then at most one
\* CLOSE, which is the last; nothing after an OPEN that did not succeed.
Bracketed ==
    /\ calls[1].command_id = MODULE_CMD_OPEN
    /\ ~OpenSucceeded => Len(calls) = 1
    /\ \A i \in 2..Len(calls) :
          \/ calls[i].command_id = MODULE_CMD_WRITE
          \/ calls[i].command_id = MODULE_CMD_CLOSE /\ i = Len(calls)

\* The flow is over after an OPEN that succeeded: its last exchange is CLOSE.
ClosedAtEnd ==
    (pc \in {"done", "raised"} /\ OpenSucceeded) =>
        calls[Len(calls)].command_id = MODULE_CMD_CLOSE

\* C38: an image-upload flow issues OPEN first, nothing more when OPEN does
\* not return SUCCESS, and otherwise its WRITEs and then exactly one CLOSE,
\* whether the writes succeeded or a chunk failed.
C38_UploadBracketed ==
    (UploadFlow /\ calls # << >>) => (Bracketed /\ ClosedAtEnd)

\* -------------------------------------------------------------- C39
\* The combined script has returned.
ScriptOver == exitcode # None

\* The run of main completed without raising.
Completed(c) == c.how = "done"

\* C39: when the first command completes without raising the second is run,
\* the script returns 0 when both complete without raising, and the second
\* command is skipped only if the first failed.
C39_CommandsInOrder ==
    /\ (Len(commands) >= 1 /\ Completed(commands[1])) =>
           /\ Len(commands) = 2
           /\ commands[2].args = SecondCommand
    /\ ScriptOver =>
           /\ commands[1].args = FirstCommand
           /\ (\A i \in 1..Len(commands) : Completed(commands[i])) => exitcode = 0
           /\ Len(commands) = 1 => ~Completed(commands[1])
====
